---- MODULE Spec2Model ----
(***************************************************************************)
(* Playback / car-projection session synchroniser of TestCarProjection.    *)
(*                                                                         *)
(* The model follows App.js: the head-unit listeners registered in the     *)
(* Android Auto effect (session started / ended, media browser connected,  *)
(* play, pause, stop), the playback helpers they call (playTrack,          *)
(* pauseTrack, resumeTrack, stopTrack), the TrackPlayer event listeners    *)
(* registered by init, and the recently-played list.  Every `await` of a   *)
(* handler is a scheduling point: an action runs the synchronous code from *)
(* one await up to and including the call that the next await waits for.   *)
(* The TrackPlayer engine is external; its calls take effect when issued.  *)
(***************************************************************************)
EXTENDS Integers, Sequences, FiniteSets, TLC

\* ---------------------------------------------------------------- bounds
CatalogSize == 2        \* tracks of mediaItems, ids 1..CatalogSize
MaxPos == 1             \* playback positions 0..MaxPos
MaxFailures == 1        \* engine calls that may throw in one run
MaxInFlight == 2        \* head-unit / phone handlers running at once
MaxEvents == 3          \* head-unit / phone events delivered in one run
NumIds == 11            \* track ids used to exercise the history list
MaxRecords == 2         \* record calls in one run of the history list
MaxSetupCalls == 4      \* setupPlayer calls in one run
MaxMounts == 3          \* times the component is mounted in one run
MaxPublishes == 2       \* registerScreen calls in one run

\* ------------------------------------------------------ program constants
MAX_RECENT_ITEMS == 10
MAX_RECENT == 3

NoTrack == 0
Catalog == 1..CatalogSize

\* mediaItems.find(item => item.id === id): the catalog entry, or null
FindMediaItem(id) == IF id \in Catalog THEN id ELSE NoTrack

\* ------------------------------------------------------- history list
Elems(s) == {s[i] : i \in 1..Len(s)}

RECURSIVE FilterOut(_, _)
\* prev.filter(item => item.id !== id)
FilterOut(s, id) ==
  IF s = <<>> THEN <<>>
  ELSE IF Head(s) = id THEN FilterOut(Tail(s), id)
       ELSE <<Head(s)>> \o FilterOut(Tail(s), id)

\* list.slice(0, n)
Slice0(s, n) == SubSeq(s, 1, IF Len(s) < n THEN Len(s) ELSE n)

\* seeded fault: the updater without its filter (no de-duplication)
addToRecentlyPlayed_NoFilter(prev, track) ==
  Slice0(<<track>> \o prev, MAX_RECENT_ITEMS)

\* seeded fault: the updater puts the track at the back
addToRecentlyPlayed_Append(prev, track) ==
  Slice0(FilterOut(prev, track) \o <<track>>, MAX_RECENT_ITEMS)

\* App.js addToRecentlyPlayed: the setRecentlyPlayed updater
addToRecentlyPlayed(prev, track) ==
  Slice0(<<track>> \o FilterOut(prev, track), MAX_RECENT_ITEMS)

\* seeded fault: the updater keeps the list as it was
recordMediaOnly_Skip(prev, item) == prev

\* TestMediaOnly playTrack: the setRecentlyPlayed updater
recordMediaOnly(prev, item) ==
  Slice0(<<item>> \o FilterOut(prev, item), MAX_RECENT)

\* ---------------------------------------------------------- browse tree
ROOT_ID == "__ROOT__"
RECENTLY_PLAYED_ID == "recently_played"

\* item.id of catalog track t, as a key / id of the browse tree
ItemId(t) == ToString(t)

\* mediaItems, in catalog order
CatalogSeq == [i \in 1..CatalogSize |-> i]

\* { id, title, artist, playable: true, browsable: false }
BrowseLeaf(t) == [id |-> ItemId(t), playable |-> TRUE, browsable |-> FALSE]

\* { id: RECENTLY_PLAYED_ID, browsable: true, playable: false }
RecentlyPlayedFolder ==
  [id |-> RECENTLY_PLAYED_ID, playable |-> FALSE, browsable |-> TRUE]

\* items.map(item => leaf)
MapLeaves(items) == [i \in 1..Len(items) |-> BrowseLeaf(items[i])]

\* seeded fault: the folder is listed but has no node of its own
BuildBrowseTree_NoFolderNode(recent) ==
  ROOT_ID :> (<<RecentlyPlayedFolder>> \o MapLeaves(CatalogSeq))

\* seeded fault: the folder comes after the tracks
BuildBrowseTree_FolderLast(recent) ==
  (ROOT_ID :> (MapLeaves(CatalogSeq) \o <<RecentlyPlayedFolder>>))
    @@ (RECENTLY_PLAYED_ID :> MapLeaves(recent))

\* TestMediaOnly, browse tree effect: the root list is the Recently Played
\* folder followed by all tracks; the folder's node lists the history
BuildBrowseTree(recent) ==
  (ROOT_ID :> (<<RecentlyPlayedFolder>> \o MapLeaves(CatalogSeq)))
    @@ (RECENTLY_PLAYED_ID :> MapLeaves(recent))

\* TestMediaOnly without history, browse tree effect: the tracks only
BuildFlatTree == ROOT_ID :> MapLeaves(CatalogSeq)

\* ------------------------------------------------------------- engine
\* The TrackPlayer engine: its queue (the head is the active track), its
\* playback state and its position.
EngineStates == {"none", "playing", "paused", "stopped"}

ActiveTrack(e) == IF e.queue = <<>> THEN NoTrack ELSE Head(e.queue)

EnginePlay(e) ==
  IF e.queue = <<>> THEN e ELSE [e EXCEPT !.state = "playing"]

EnginePause(e) ==
  IF e.state = "playing" THEN [e EXCEPT !.state = "paused"] ELSE e

EngineStop(e) == [e EXCEPT !.state = "stopped", !.pos = 0]

EngineReset(e) == [queue |-> <<>>, state |-> "none", pos |-> 0]

EngineAdd(e, t) == [e EXCEPT !.queue = Append(e.queue, t)]

EngineSeekTo(e, p) == IF e.queue = <<>> THEN e ELSE [e EXCEPT !.pos = p]

EngineCall(e, op, a) ==
  CASE op = "play" -> EnginePlay(e)
    [] op = "pause" -> EnginePause(e)
    [] op = "stop" -> EngineStop(e)
    [] op = "reset" -> EngineReset(e)
    [] op = "add" -> EngineAdd(e, a)
    [] op = "seek" -> EngineSeekTo(e, a)
    [] OTHER -> e

\* -------------------------------------------------------------- state
VARIABLES
  eng,                 \* the TrackPlayer engine: [queue, state, pos]
  evState,             \* undelivered Event.PlaybackState ("" = none)
  evTrack,             \* undelivered Event.PlaybackActiveTrackChanged (-1 = none)
  currentTrackRef,     \* currentTrackRef.current / currentTrack (NoTrack = null)
  isPlayingRef,        \* isPlayingRef.current / isPlaying
  isConnected,         \* isConnected
  pendingAudioRestart, \* pendingAudioRestartRef.current (NoTrack = null)
  recentlyPlayed,      \* recentlyPlayedRef.current / recentlyPlayed
  stored,              \* AsyncStorage item RECENTLY_PLAYED_KEY
  isPlayerReady,       \* isPlayerReady
  published,           \* last screen registered as 'main' by updateNowPlayingScreen
  initPc,              \* position of init(): "setup", "load", "ready"
  loaded,              \* value AsyncStorage.getItem returned to loadRecentlyPlayed
  pc,                  \* position of each head-unit / phone handler
  cActive,             \* connect handlers: activeTrack read from the engine
  cWas,                \* connect handlers: wasPlaying
  cPos,                \* connect handlers: position read by getProgress
  cLog,                \* connect handlers: calls issued by the current run
  ptTrack,             \* playTrack: its track argument
  failures,            \* engine / storage calls that have thrown
  nEvents,             \* events delivered by head unit or phone so far
  variant,             \* history list: which updater is exercised
  histPrev,            \* history list: the list before the last record call
  histLast,            \* history list: the track of the last record call
  nRecords,            \* history list: record calls so far
  browseTree,          \* TestMediaOnly: tree last passed to setMediaBrowseTree
  mediaId,             \* TestMediaOnly: event.mediaId of the last play-from-id
  notFound,            \* TestMediaOnly: a not-found condition was reported
  playerUp,            \* setupPlayer: the native player is initialised
  sp,                  \* setupPlayer: position and result of each caller
  nSetup,              \* setupPlayer: calls started so far
  effects,             \* mounts of the component: its init() runs and cleanups
  registered,          \* listeners registered on engine and head unit, by name
  registerLog,         \* CarProjection.registerScreen calls made so far
  ptStart,             \* playTrack: what the last call found when it began
  syncQ,               \* syncMediaSession calls in flight: the state each read
  mediaSession,        \* last payload passed to updateMediaPlaybackState
  connectRun           \* TestMediaOnly: the connect run being followed

engVars == <<eng, evState, evTrack, failures>>
cacheVars == <<currentTrackRef, isPlayingRef, published>>
connVars == <<cActive, cWas, cPos, cLog>>
histVars == <<variant, histPrev, histLast, nRecords>>
initVars == <<initPc, loaded, isPlayerReady>>
lifeVars == <<effects, registered, registerLog>>
syncVars == <<syncQ, mediaSession, connectRun>>
callVars == <<ptStart, syncVars>>
auxRest == <<browseTree, mediaId, notFound, playerUp, sp, nSetup, lifeVars>>
auxVars == <<auxRest, callVars>>

vars == <<eng, evState, evTrack, currentTrackRef, isPlayingRef, isConnected,
          pendingAudioRestart, recentlyPlayed, stored, isPlayerReady,
          published, initPc, loaded, pc, cActive, cWas, cPos, cLog, ptTrack,
          failures, nEvents, variant, histPrev, histLast, nRecords,
          browseTree, mediaId, notFound, playerUp, sp, nSetup,
          effects, registered, registerLog, ptStart, syncQ, mediaSession,
          connectRun>>

Channels == {"session", "browser"}
Handlers == Channels \cup {"play", "pause", "stop", "playTrack"}

\* the head unit or the phone delivers an event; init() has finished by
\* then, except in the runs that follow the start of the app ("Startup")
Arrive ==
  /\ initPc = "ready" \/ variant = "Startup"
  /\ nEvents < MaxEvents
  /\ nEvents' = nEvents + 1

\* a call issued by a connect handler: the operation and its argument
Call(op, a) == [op |-> op, a |-> a]

\* the screen updateNowPlayingScreen(track, playing) registers
Screen(track, playing) ==
  IF track = NoTrack THEN [track |-> NoTrack, playing |-> FALSE]
  ELSE [track |-> track, playing |-> playing]

\* the effect on [currentTrack, isPlaying]: after a render in which one of
\* them changed, updateNowPlayingScreen(currentTrack, isPlaying) if a track
\* is set; pub is the screen the handler itself left
AfterRender(track, playing, pub) ==
  IF (track # currentTrackRef \/ playing # isPlayingRef) /\ track # NoTrack
  THEN Screen(track, playing)
  ELSE pub

\* an id persisted by an earlier run that mediaItems no longer holds
ForeignTrack == CatalogSize + 1

\* contents the persisted history may have when the app starts
InitStored == {<<>>, <<ForeignTrack, 1>>}

ReconcilerInit ==
  /\ eng = [queue |-> <<>>, state |-> "none", pos |-> 0]
  /\ evState = ""
  /\ evTrack = -1
  /\ currentTrackRef = NoTrack
  /\ isPlayingRef = FALSE
  /\ isConnected = FALSE
  /\ pendingAudioRestart = NoTrack
  /\ isPlayerReady = FALSE
  /\ published = Screen(NoTrack, FALSE)
  /\ initPc = "setup"
  /\ loaded = <<>>
  /\ pc = [h \in Handlers |-> "idle"]
  /\ cActive = [c \in Channels |-> NoTrack]
  /\ cWas = [c \in Channels |-> FALSE]
  /\ cPos = [c \in Channels |-> 0]
  /\ cLog = [c \in Channels |-> <<>>]
  /\ ptTrack = NoTrack
  /\ failures = 0
  /\ nEvents = 0

\* the callers of setupPlayer: init() and playTrack
SetupCallers == {"init", "playTrack"}

\* a caller that has not called setupPlayer: where the call is, what the
\* last call returned, whether the player was initialised when it began
NoSetup == [at |-> "idle", result |-> "none", wasUp |-> FALSE]

\* the listeners the component registers: on the engine by init(), on the
\* head unit by the Android Auto effect
EngineListeners == {"PlaybackState", "PlaybackActiveTrackChanged",
                    "PlaybackProgressUpdated", "PlaybackError"}
HeadUnitListeners == {"sessionStarted", "sessionEnded", "mediaBrowserConnected",
                      "mediaPlay", "mediaPause", "mediaStop", "screenChanged",
                      "mediaPlayFromId"}

\* no mount is traced, no listener is registered, no screen was registered
LifeInit ==
  /\ effects = <<>>
  /\ registered = [n \in EngineListeners \cup HeadUnitListeners |-> 0]
  /\ registerLog = <<>>

\* no playTrack call is traced
NoCall == [cur |-> NoTrack, recent |-> <<>>, pub |-> Screen(NoTrack, FALSE),
           threw |-> ""]

\* the head unit has been told nothing yet
NoSession == [state |-> "none", title |-> NoTrack]

\* no connect run is followed
NoRun == [on |-> FALSE, tree |-> FALSE]

CallInit ==
  /\ ptStart = NoCall
  /\ syncQ = <<>>
  /\ mediaSession = NoSession
  /\ connectRun = NoRun

\* nothing of TestMediaOnly has run, no setupPlayer call is traced
AuxInit ==
  /\ browseTree = <<>>
  /\ mediaId = NoTrack
  /\ notFound = FALSE
  /\ playerUp = TRUE
  /\ sp = [c \in SetupCallers |-> NoSetup]
  /\ nSetup = 0
  /\ LifeInit
  /\ CallInit

Init ==
  /\ ReconcilerInit
  /\ AuxInit
  /\ recentlyPlayed = <<>>
  /\ stored \in InitStored
  /\ variant = "App"
  /\ histPrev = <<>>
  /\ histLast = NoTrack
  /\ nRecords = 0

\* ---------------------------------------------------- engine and storage
\* the TrackPlayer listeners are registered at the end of init()
Listening == initPc = "ready"

\* the events the engine emits when a call takes it from eng to e2
Emit(e2) ==
  /\ evState' = IF Listening /\ e2.state # eng.state THEN e2.state ELSE evState
  /\ evTrack' = IF Listening /\ ActiveTrack(e2) # ActiveTrack(eng)
                THEN ActiveTrack(e2) ELSE evTrack

\* await TrackPlayer.<op>(a): the call takes effect (ok), or throws and
\* leaves the engine as it was
IssueCall(op, a, ok) ==
  /\ ok \/ failures < MaxFailures
  /\ failures' = IF ok THEN failures ELSE failures + 1
  /\ eng' = IF ok THEN EngineCall(eng, op, a) ELSE eng
  /\ Emit(eng')

\* the engine plays on: the position advances
Tick ==
  /\ eng.state = "playing"
  /\ eng.pos < MaxPos
  /\ eng' = [eng EXCEPT !.pos = eng.pos + 1]
  /\ UNCHANGED <<evState, evTrack, failures, currentTrackRef, isPlayingRef,
                 isConnected, pendingAudioRestart, recentlyPlayed, stored,
                 isPlayerReady, published, initPc, loaded, pc, cActive, cWas,
                 cPos, cLog, ptTrack, nEvents, variant, histPrev, histLast,
                 nRecords, auxVars>>

\* ------------------------------------------------------------------ init
\* init(): setupPlayer() has returned; setIsPlayerReady(ready) re-creates
\* playTrack, so the Android Auto effect runs again and registers the blank
\* main screen; loadRecentlyPlayed() calls AsyncStorage.getItem
InitSetupDone ==
  /\ initPc = "setup"
  /\ isPlayerReady' = TRUE
  /\ published' = Screen(NoTrack, FALSE)
  /\ loaded' = stored
  /\ initPc' = "load"
  /\ UNCHANGED <<eng, evState, evTrack, failures, currentTrackRef,
                 isPlayingRef, isConnected, pendingAudioRestart,
                 recentlyPlayed, stored, pc, cActive, cWas, cPos, cLog,
                 ptTrack, nEvents, variant, histPrev, histLast, nRecords, auxVars>>

\* loadRecentlyPlayed(): getItem has returned; the stored list, if any,
\* replaces the in-memory one; then init registers the TrackPlayer listeners
InitLoadDone ==
  /\ initPc = "load"
  /\ recentlyPlayed' = IF loaded # <<>> THEN loaded ELSE recentlyPlayed
  /\ initPc' = "ready"
  /\ UNCHANGED <<eng, evState, evTrack, failures, currentTrackRef,
                 isPlayingRef, isConnected, pendingAudioRestart, stored,
                 isPlayerReady, published, loaded, pc, cActive, cWas, cPos,
                 cLog, ptTrack, nEvents, variant, histPrev, histLast,
                 nRecords, auxVars>>

\* ------------------------------------------------- TrackPlayer listeners
\* Event.PlaybackState listener
PlaybackStateEvent ==
  /\ evState # ""
  /\ LET playing == evState = "playing"
         pub == IF currentTrackRef # NoTrack
                THEN Screen(currentTrackRef, playing) ELSE published
     IN /\ isPlayingRef' = playing
        /\ published' = AfterRender(currentTrackRef, playing, pub)
  /\ evState' = ""
  /\ UNCHANGED <<eng, evTrack, failures, currentTrackRef, isConnected,
                 pendingAudioRestart, recentlyPlayed, stored, isPlayerReady,
                 initPc, loaded, pc, cActive, cWas, cPos, cLog, ptTrack,
                 nEvents, variant, histPrev, histLast, nRecords, auxVars>>

\* Event.PlaybackActiveTrackChanged listener
ActiveTrackChangedEvent ==
  /\ evTrack # -1
  /\ LET track == FindMediaItem(evTrack)
         new == IF evTrack # NoTrack /\ track # NoTrack
                THEN track ELSE currentTrackRef
     IN /\ currentTrackRef' = new
        /\ published' = AfterRender(new, isPlayingRef, published)
  /\ evTrack' = -1
  /\ UNCHANGED <<eng, evState, failures, isPlayingRef, isConnected,
                 pendingAudioRestart, recentlyPlayed, stored, isPlayerReady,
                 initPc, loaded, pc, cActive, cWas, cPos, cLog, ptTrack,
                 nEvents, variant, histPrev, histLast, nRecords, auxVars>>

\* --------------------------------------------------------------- playTrack
InFlight == Cardinality({h \in Handlers : pc[h] # "idle"})

\* a new event is taken up by handler h
CanStart(h) == pc[h] = "idle" /\ InFlight < MaxInFlight

\* the playTrack calls of the "Call" runs are traced: what the call found
\* when it began, and the operation that threw ("" = none so far)
Traced == variant = "Call"

CallBegins(threw) ==
  ptStart' = IF Traced
             THEN [cur |-> currentTrackRef, recent |-> recentlyPlayed,
                   pub |-> published, threw |-> threw]
             ELSE ptStart

CallEnds(threw) ==
  ptStart' = IF Traced THEN [ptStart EXCEPT !.threw = threw] ELSE ptStart

\* playTrack(track, ...) up to its first await: setupPlayer() when the
\* player is not ready, TrackPlayer.reset() otherwise
PlayTrackBegin(track, ok) ==
  /\ ptTrack' = IF ok THEN track ELSE NoTrack
  /\ CallBegins(IF ok \/ ~isPlayerReady THEN "" ELSE "reset")
  /\ IF isPlayerReady THEN IssueCall("reset", 0, ok)
     ELSE ok /\ UNCHANGED engVars

PlayTrackBeginPc(ok) ==
  IF ~isPlayerReady THEN "setup" ELSE IF ok THEN "reset" ELSE "idle"

\* seeded fault: the catch block registers the requested track as paused
PlayTrackStep_CatchPublishes(from, op, to) ==
  /\ pc["playTrack"] = from
  /\ \E ok \in BOOLEAN :
       /\ IssueCall(op, IF op = "add" THEN ptTrack ELSE 0, ok)
       /\ pc' = [pc EXCEPT !["playTrack"] = IF ok THEN to ELSE "idle"]
       /\ ptTrack' = IF ok THEN ptTrack ELSE NoTrack
       /\ CallEnds(IF ok THEN "" ELSE op)
       /\ published' = IF ok THEN published ELSE Screen(ptTrack, FALSE)
  /\ UNCHANGED <<currentTrackRef, isPlayingRef, isConnected,
                 pendingAudioRestart, recentlyPlayed, stored, isPlayerReady,
                 initPc, loaded, cActive, cWas, cPos, cLog,
                 nEvents, variant, histPrev, histLast, nRecords, auxRest,
                 syncVars>>

\* playTrack resumes at `from` and issues TrackPlayer.<op>; a throw ends it
\* in its catch block, which only logs
PlayTrackStep(from, op, to) ==
  /\ pc["playTrack"] = from
  /\ \E ok \in BOOLEAN :
       /\ IssueCall(op, IF op = "add" THEN ptTrack ELSE 0, ok)
       /\ pc' = [pc EXCEPT !["playTrack"] = IF ok THEN to ELSE "idle"]
       /\ ptTrack' = IF ok THEN ptTrack ELSE NoTrack
       /\ CallEnds(IF ok THEN "" ELSE op)
  /\ UNCHANGED <<currentTrackRef, isPlayingRef, isConnected,
                 pendingAudioRestart, recentlyPlayed, stored, isPlayerReady,
                 published, initPc, loaded, cActive, cWas, cPos, cLog,
                 nEvents, variant, histPrev, histLast, nRecords, auxRest,
                 syncVars>>

\* saveRecentlyPlayed(items): the write succeeds, or fails and is swallowed
saveRecentlyPlayed(items, ok) ==
  /\ ok \/ failures < MaxFailures
  /\ failures' = IF ok THEN failures ELSE failures + 1
  /\ stored' = IF ok THEN items ELSE stored

\* seeded fault: a failed write takes the entry back out of memory
HistoryAfterSave_Rollback(prev, updated, saved) ==
  IF saved THEN updated ELSE prev

\* the list held in memory once addToRecentlyPlayed has run: the ref and the
\* state get `updated` before the write is started, and the write is not
\* awaited
HistoryAfterSave(prev, updated, saved) == updated

\* playTrack after getPlaybackState: the track becomes current, is recorded
\* and saved, and the screens are updated
PlayTrackFinishAt(at) ==
  /\ pc["playTrack"] = at
  /\ LET updated == addToRecentlyPlayed(recentlyPlayed, ptTrack)
     IN /\ currentTrackRef' = ptTrack
        /\ \E ok \in BOOLEAN :
             /\ saveRecentlyPlayed(updated, ok)
             /\ recentlyPlayed' = HistoryAfterSave(recentlyPlayed, updated, ok)
        /\ published' = AfterRender(ptTrack, isPlayingRef, Screen(ptTrack, TRUE))
  /\ pc' = [pc EXCEPT !["playTrack"] = "idle"]
  /\ ptTrack' = NoTrack
  /\ UNCHANGED <<eng, evState, evTrack, isPlayingRef, isConnected,
                 pendingAudioRestart, isPlayerReady, initPc, loaded, cActive,
                 cWas, cPos, cLog, nEvents, variant, histPrev, histLast,
                 nRecords, auxRest, callVars>>

\* App.js: the last await of playTrack is the getPlaybackState() read
PlayTrackFinish == PlayTrackFinishAt("state")

\* handleTrackPress(track) on the phone
PhonePlay ==
  /\ CanStart("playTrack")
  /\ \E t \in Catalog \cup Elems(recentlyPlayed), ok \in BOOLEAN :
       /\ PlayTrackBegin(t, ok)
       /\ pc' = [pc EXCEPT !["playTrack"] = PlayTrackBeginPc(ok)]
  /\ Arrive
  /\ UNCHANGED <<currentTrackRef, isPlayingRef, isConnected,
                 pendingAudioRestart, recentlyPlayed, stored, isPlayerReady,
                 published, initPc, loaded, cActive, cWas, cPos, cLog,
                 variant, histPrev, histLast, nRecords, auxRest,
                 syncVars>>

\* ---------------------------------------------------- transport commands
\* seeded fault: the oldest entry instead of the most recent one
FirstRecent_Oldest(recent) == recent[Len(recent)]

\* recentlyPlayedRef.current[0]
FirstRecent(recent) == recent[1]

\* addMediaPlayListener callback up to its first await
PlayCmd ==
  /\ CanStart("play")
  /\ Arrive
  /\ IF currentTrackRef # NoTrack /\ ~isPlayingRef
     THEN \* resumeTrack(): TrackPlayer.play()
          /\ \E ok \in BOOLEAN :
               /\ IssueCall("play", 0, ok)
               /\ pc' = [pc EXCEPT !["play"] = IF ok THEN "await" ELSE "idle"]
          /\ UNCHANGED <<ptTrack, callVars>>
     ELSE IF currentTrackRef = NoTrack /\ recentlyPlayed # <<>>
     THEN \* playTrack(recentlyPlayedRef.current[0], true)
          /\ pc["playTrack"] = "idle"
          /\ \E ok \in BOOLEAN :
               /\ PlayTrackBegin(FirstRecent(recentlyPlayed), ok)
               /\ pc' = [pc EXCEPT !["playTrack"] = PlayTrackBeginPc(ok)]
     ELSE UNCHANGED <<engVars, pc, ptTrack, callVars>>
  /\ UNCHANGED <<currentTrackRef, isPlayingRef, isConnected,
                 pendingAudioRestart, recentlyPlayed, stored, isPlayerReady,
                 published, initPc, loaded, cActive, cWas, cPos, cLog,
                 variant, histPrev, histLast, nRecords, auxRest,
                 syncVars>>

\* resumeTrack() after TrackPlayer.play()
PlayCmdDone ==
  /\ pc["play"] = "await"
  /\ published' = IF currentTrackRef # NoTrack
                  THEN Screen(currentTrackRef, TRUE) ELSE published
  /\ pc' = [pc EXCEPT !["play"] = "idle"]
  /\ UNCHANGED <<engVars, currentTrackRef, isPlayingRef, isConnected,
                 pendingAudioRestart, recentlyPlayed, stored, isPlayerReady,
                 initPc, loaded, cActive, cWas, cPos, cLog, ptTrack, nEvents,
                 variant, histPrev, histLast, nRecords, auxVars>>

\* addMediaPauseListener callback: pauseTrack() up to TrackPlayer.pause()
PauseCmd ==
  /\ CanStart("pause")
  /\ Arrive
  /\ \E ok \in BOOLEAN :
       /\ IssueCall("pause", 0, ok)
       /\ pc' = [pc EXCEPT !["pause"] = IF ok THEN "await" ELSE "idle"]
  /\ UNCHANGED <<currentTrackRef, isPlayingRef, isConnected,
                 pendingAudioRestart, recentlyPlayed, stored, isPlayerReady,
                 published, initPc, loaded, cActive, cWas, cPos, cLog,
                 ptTrack, variant, histPrev, histLast, nRecords, auxVars>>

\* pauseTrack() after TrackPlayer.pause()
PauseCmdDone ==
  /\ pc["pause"] = "await"
  /\ published' = IF currentTrackRef # NoTrack
                  THEN Screen(currentTrackRef, FALSE) ELSE published
  /\ pc' = [pc EXCEPT !["pause"] = "idle"]
  /\ UNCHANGED <<engVars, currentTrackRef, isPlayingRef, isConnected,
                 pendingAudioRestart, recentlyPlayed, stored, isPlayerReady,
                 initPc, loaded, cActive, cWas, cPos, cLog, ptTrack, nEvents,
                 variant, histPrev, histLast, nRecords, auxVars>>

\* addMediaStopListener callback: stopTrack() up to TrackPlayer.stop()
StopCmd ==
  /\ CanStart("stop")
  /\ Arrive
  /\ \E ok \in BOOLEAN :
       /\ IssueCall("stop", 0, ok)
       /\ pc' = [pc EXCEPT !["stop"] = IF ok THEN "stop" ELSE "idle"]
  /\ UNCHANGED <<currentTrackRef, isPlayingRef, isConnected,
                 pendingAudioRestart, recentlyPlayed, stored, isPlayerReady,
                 published, initPc, loaded, cActive, cWas, cPos, cLog,
                 ptTrack, variant, histPrev, histLast, nRecords, auxVars>>

\* stopTrack() after TrackPlayer.stop(): TrackPlayer.reset()
StopCmdReset ==
  /\ pc["stop"] = "stop"
  /\ \E ok \in BOOLEAN :
       /\ IssueCall("reset", 0, ok)
       /\ pc' = [pc EXCEPT !["stop"] = IF ok THEN "reset" ELSE "idle"]
  /\ UNCHANGED <<currentTrackRef, isPlayingRef, isConnected,
                 pendingAudioRestart, recentlyPlayed, stored, isPlayerReady,
                 published, initPc, loaded, cActive, cWas, cPos, cLog,
                 ptTrack, nEvents, variant, histPrev, histLast, nRecords, auxVars>>

\* stopTrack() after TrackPlayer.reset(): the caches are cleared and the
\* blank main screen is registered
StopCmdDone ==
  /\ pc["stop"] = "reset"
  /\ currentTrackRef' = NoTrack
  /\ isPlayingRef' = FALSE
  /\ published' = Screen(NoTrack, FALSE)
  /\ pc' = [pc EXCEPT !["stop"] = "idle"]
  /\ UNCHANGED <<engVars, isConnected, pendingAudioRestart, recentlyPlayed,
                 stored, isPlayerReady, initPc, loaded, cActive, cWas, cPos,
                 cLog, ptTrack, nEvents, variant, histPrev, histLast,
                 nRecords, auxVars>>

\* seeded fault: the session-ended callback stops the player
SessionEnded_Stops ==
  /\ Arrive
  /\ isConnected' = FALSE
  /\ pendingAudioRestart' = NoTrack
  /\ eng' = EngineStop(eng)
  /\ UNCHANGED <<evState, evTrack, failures, currentTrackRef, isPlayingRef,
                 recentlyPlayed, stored, isPlayerReady, published, initPc,
                 loaded, pc, cActive, cWas, cPos, cLog, ptTrack, variant,
                 histPrev, histLast, nRecords, auxVars>>

\* seeded fault: the session-ended callback forgets the current track
SessionEnded_ClearsTrack ==
  /\ isConnected' = FALSE
  /\ pendingAudioRestart' = NoTrack
  /\ currentTrackRef' = NoTrack
  /\ Arrive
  /\ UNCHANGED <<engVars, isPlayingRef, recentlyPlayed,
                 stored, isPlayerReady, published, initPc, loaded, pc,
                 cActive, cWas, cPos, cLog, ptTrack, variant, histPrev,
                 histLast, nRecords, auxVars>>

\* addSessionEndedListener callback
SessionEnded ==
  /\ isConnected' = FALSE
  /\ pendingAudioRestart' = NoTrack
  /\ Arrive
  /\ UNCHANGED <<engVars, currentTrackRef, isPlayingRef, recentlyPlayed,
                 stored, isPlayerReady, published, initPc, loaded, pc,
                 cActive, cWas, cPos, cLog, ptTrack, variant, histPrev,
                 histLast, nRecords, auxVars>>

\* -------------------------------------------------------- connect handlers
\* addSessionStartedListener ("session") and addMediaBrowserConnectedListener
\* ("browser") callbacks.  pc[ch] names the await the handler is suspended in.
Logged(ch, c) == cLog' = [cLog EXCEPT ![ch] = Append(cLog[ch], c)]

\* where the handler goes when its if / else-if / else is done: the session
\* handler ends, the browser handler calls syncMediaSessionState() again
AfterBranch(ch) == IF ch = "browser" THEN "sync2" ELSE "idle"

\* the connect event arrives: setIsConnected(true) and the first call
ConnectEvent(ch) ==
  /\ CanStart(ch)
  /\ isConnected' = TRUE
  /\ Arrive
  /\ cLog' = [cLog EXCEPT ![ch] = <<>>]
  /\ cWas' = [cWas EXCEPT ![ch] = FALSE]
  /\ cPos' = [cPos EXCEPT ![ch] = 0]
  /\ IF ch = "session"
     THEN /\ cActive' = [cActive EXCEPT ![ch] = ActiveTrack(eng)]
          /\ pc' = [pc EXCEPT ![ch] = "getTrack"]
     ELSE /\ cActive' = [cActive EXCEPT ![ch] = NoTrack]
          /\ pc' = [pc EXCEPT ![ch] = "sync1"]
  /\ UNCHANGED <<engVars, currentTrackRef, isPlayingRef, pendingAudioRestart,
                 recentlyPlayed, stored, isPlayerReady, published, initPc,
                 loaded, ptTrack, variant, histPrev, histLast, nRecords, auxVars>>

\* browser handler: the awaited syncMediaSessionState() is done,
\* getActiveTrack() is called
ConnectSyncDone ==
  /\ pc["browser"] = "sync1"
  /\ cActive' = [cActive EXCEPT !["browser"] = ActiveTrack(eng)]
  /\ pc' = [pc EXCEPT !["browser"] = "getTrack"]
  /\ UNCHANGED <<engVars, currentTrackRef, isPlayingRef, isConnected,
                 pendingAudioRestart, recentlyPlayed, stored, isPlayerReady,
                 published, initPc, loaded, cWas, cPos, cLog, ptTrack,
                 nEvents, variant, histPrev, histLast, nRecords, auxVars>>

\* the trailing sync of the browser handler is done
ConnectSyncEnd ==
  /\ pc["browser"] = "sync2"
  /\ pc' = [pc EXCEPT !["browser"] = "idle"]
  /\ UNCHANGED <<engVars, currentTrackRef, isPlayingRef, isConnected,
                 pendingAudioRestart, recentlyPlayed, stored, isPlayerReady,
                 published, initPc, loaded, cActive, cWas, cPos, cLog,
                 ptTrack, nEvents, variant, histPrev, histLast, nRecords, auxVars>>

\* getActiveTrack() has returned: getPlaybackState() is called
ConnectGetState(ch) ==
  /\ pc[ch] = "getTrack"
  /\ cWas' = [cWas EXCEPT ![ch] = (eng.state = "playing")]
  /\ pc' = [pc EXCEPT ![ch] = "getState"]
  /\ UNCHANGED <<engVars, currentTrackRef, isPlayingRef, isConnected,
                 pendingAudioRestart, recentlyPlayed, stored, isPlayerReady,
                 published, initPc, loaded, cActive, cPos, cLog, ptTrack,
                 nEvents, variant, histPrev, histLast, nRecords, auxVars>>

\* seeded fault: the paused case takes the restart branch too
BranchOf_RestartAlways(active, media, wasPlaying, recent) ==
  IF active # NoTrack /\ media # NoTrack THEN "restart"
  ELSE IF active = NoTrack /\ recent # <<>> THEN "autoplay"
  ELSE "blank"

\* seeded fault: the else-if does not look at the active track
BranchOf_AutoplayAnyway(active, media, wasPlaying, recent) ==
  IF active # NoTrack /\ media # NoTrack
  THEN IF wasPlaying THEN "restart" ELSE "resume"
  ELSE IF recent # <<>> THEN "autoplay"
  ELSE "blank"

\* the if / else-if / else of a connect handler: restart when the active
\* catalog track was playing, resume when it was not, auto-play when there is
\* no active track and the history is not empty, blank screen otherwise
BranchOf(active, media, wasPlaying, recent) ==
  IF active # NoTrack /\ media # NoTrack
  THEN IF wasPlaying THEN "restart" ELSE "resume"
  ELSE IF active = NoTrack /\ recent # <<>> THEN "autoplay"
  ELSE "blank"

\* getPlaybackState() has returned: the handler takes one of its branches
ConnectBranch(ch) ==
  /\ pc[ch] = "getState"
  /\ LET mediaTrack == FindMediaItem(cActive[ch])
         branch == BranchOf(cActive[ch], mediaTrack, cWas[ch], recentlyPlayed)
     IN CASE branch = "restart" ->
               \* setCurrentTrack(mediaTrack); getProgress()
               /\ currentTrackRef' = mediaTrack
               /\ published' = AfterRender(mediaTrack, isPlayingRef, published)
               /\ cPos' = [cPos EXCEPT ![ch] = eng.pos]
               /\ Logged(ch, Call("getProgress", eng.pos))
               /\ pc' = [pc EXCEPT ![ch] = "getProgress"]
               /\ UNCHANGED <<engVars, ptTrack, callVars>>
          [] branch = "resume" ->
               \* setCurrentTrack(mediaTrack); play()
               /\ currentTrackRef' = mediaTrack
               /\ published' = AfterRender(mediaTrack, isPlayingRef, published)
               /\ \E ok \in BOOLEAN :
                    /\ IssueCall("play", 0, ok)
                    /\ pc' = [pc EXCEPT ![ch] = IF ok THEN "play" ELSE "catch"]
               /\ Logged(ch, Call("play", 0))
               /\ UNCHANGED <<cPos, ptTrack, callVars>>
          [] branch = "autoplay" ->
               \* playTrack(first, true), not awaited
               /\ pc["playTrack"] = "idle"
               /\ \E ok \in BOOLEAN :
                    /\ PlayTrackBegin(FirstRecent(recentlyPlayed), ok)
                    /\ pc' = [pc EXCEPT !["playTrack"] = PlayTrackBeginPc(ok),
                                        ![ch] = AfterBranch(ch)]
               /\ Logged(ch, Call("playTrack", FirstRecent(recentlyPlayed)))
               /\ UNCHANGED <<currentTrackRef, published, cPos>>
          [] OTHER ->
               \* updateNowPlayingScreen(null, false)
               /\ published' = Screen(NoTrack, FALSE)
               /\ Logged(ch, Call("publishNone", 0))
               /\ pc' = [pc EXCEPT ![ch] = AfterBranch(ch)]
               /\ UNCHANGED <<engVars, currentTrackRef, ptTrack, cPos,
                              callVars>>
  /\ UNCHANGED <<isPlayingRef, isConnected, pendingAudioRestart,
                 recentlyPlayed, stored, isPlayerReady, initPc, loaded,
                 cActive, cWas, nEvents, variant, histPrev, histLast,
                 nRecords, auxRest,
                 syncVars>>

\* the handler resumes at `from` and issues TrackPlayer.<op>; a throw takes
\* it to its catch block
ConnectCall(ch, from, op, a, to) ==
  /\ pc[ch] = from
  /\ \E ok \in BOOLEAN :
       /\ IssueCall(op, a, ok)
       /\ pc' = [pc EXCEPT ![ch] = IF ok THEN to ELSE "catch"]
  /\ Logged(ch, Call(op, a))
  /\ UNCHANGED <<currentTrackRef, isPlayingRef, isConnected,
                 pendingAudioRestart, recentlyPlayed, stored, isPlayerReady,
                 published, initPc, loaded, cActive, cWas, cPos, ptTrack,
                 nEvents, variant, histPrev, histLast, nRecords, auxVars>>

\* restart: getProgress() has returned, pause()
ConnectPause(ch) == ConnectCall(ch, "getProgress", "pause", 0, "pause")

\* restart: pause() has returned, the 2000 ms timer is started
ConnectWait(ch) ==
  /\ pc[ch] = "pause"
  /\ pc' = [pc EXCEPT ![ch] = "wait"]
  /\ Logged(ch, Call("wait", 0))
  /\ UNCHANGED <<engVars, currentTrackRef, isPlayingRef, isConnected,
                 pendingAudioRestart, recentlyPlayed, stored, isPlayerReady,
                 published, initPc, loaded, cActive, cWas, cPos, ptTrack,
                 nEvents, variant, histPrev, histLast, nRecords, auxVars>>

\* seeded fault: position 0 is sought too
ShouldSeek_Always(position) == position >= 0

\* if (currentPosition?.position > 0): the restart seeks back
ShouldSeek(position) == position > 0

\* restart: the timer has fired; seekTo(position) if position > 0, else play()
ConnectTimerFired(ch) ==
  IF ShouldSeek(cPos[ch])
  THEN ConnectCall(ch, "wait", "seek", cPos[ch], "seek")
  ELSE ConnectCall(ch, "wait", "play", 0, "play")

\* restart: seekTo() has returned, play()
ConnectSeekDone(ch) == ConnectCall(ch, "seek", "play", 0, "play")

\* play() has returned (restart or resume): setIsPlaying(true) and
\* updateNowPlayingScreen(mediaTrack, true)
ConnectPlayDone(ch) ==
  /\ pc[ch] = "play"
  /\ LET mediaTrack == FindMediaItem(cActive[ch])
     IN /\ isPlayingRef' = TRUE
        /\ published' = AfterRender(currentTrackRef, TRUE, Screen(mediaTrack, TRUE))
        /\ Logged(ch, Call("publishPlaying", mediaTrack))
  /\ pc' = [pc EXCEPT ![ch] = AfterBranch(ch)]
  /\ UNCHANGED <<engVars, currentTrackRef, isConnected, pendingAudioRestart,
                 recentlyPlayed, stored, isPlayerReady, initPc, loaded,
                 cActive, cWas, cPos, ptTrack, nEvents, variant, histPrev,
                 histLast, nRecords, auxVars>>

\* seeded fault: the catch block gives the connection up
ConnectCatch_Disconnects(ch) ==
  /\ pc[ch] = "catch"
  /\ isConnected' = FALSE
  /\ Logged(ch, Call("catch", 0))
  /\ pc' = [pc EXCEPT ![ch] = "idle"]
  /\ UNCHANGED <<engVars, currentTrackRef, isPlayingRef, published,
                 pendingAudioRestart, recentlyPlayed, stored, isPlayerReady,
                 initPc, loaded, cActive, cWas, cPos, ptTrack, nEvents,
                 variant, histPrev, histLast, nRecords, auxVars>>

\* the catch block: the session handler registers the blank main screen,
\* the browser handler only warns
ConnectCatch(ch) ==
  /\ pc[ch] = "catch"
  /\ IF ch = "session"
     THEN /\ published' = Screen(NoTrack, FALSE)
          /\ cLog' = [cLog EXCEPT ![ch] =
                        cLog[ch] \o <<Call("catch", 0), Call("publishNone", 0)>>]
     ELSE /\ Logged(ch, Call("catch", 0))
          /\ UNCHANGED published
  /\ pc' = [pc EXCEPT ![ch] = "idle"]
  /\ UNCHANGED <<engVars, currentTrackRef, isPlayingRef, isConnected,
                 pendingAudioRestart, recentlyPlayed, stored, isPlayerReady,
                 initPc, loaded, cActive, cWas, cPos, ptTrack, nEvents,
                 variant, histPrev, histLast, nRecords, auxVars>>

\* ------------------------------------------------------- specifications
Next ==
  \/ Tick
  \/ InitSetupDone
  \/ InitLoadDone
  \/ PlaybackStateEvent
  \/ ActiveTrackChangedEvent
  \/ PhonePlay
  \/ PlayTrackStep("reset", "add", "add")
  \/ PlayTrackStep("add", "play", "play")
  \/ PlayTrackStep("play", "getPlaybackState", "state")
  \/ PlayTrackFinish
  \/ PlayCmd
  \/ PlayCmdDone
  \/ PauseCmd
  \/ PauseCmdDone
  \/ StopCmd
  \/ StopCmdReset
  \/ StopCmdDone
  \/ SessionEnded
  \/ \E ch \in Channels :
       \/ ConnectEvent(ch)
       \/ ConnectGetState(ch)
       \/ ConnectBranch(ch)
       \/ ConnectPause(ch)
       \/ ConnectWait(ch)
       \/ ConnectTimerFired(ch)
       \/ ConnectSeekDone(ch)
       \/ ConnectPlayDone(ch)
       \/ ConnectCatch(ch)
  \/ ConnectSyncDone
  \/ ConnectSyncEnd

Spec == Init /\ [][Next]_vars

\* ------------------------------------------------------- start of the app
\* App.js from its first render: the phone list and the head-unit listeners
\* are live while init() still awaits setupPlayer() and loadRecentlyPlayed().
\* the history an earlier run of the app has persisted
StartupStored == <<ForeignTrack, 1>>

StartupInit ==
  /\ ReconcilerInit
  /\ AuxInit
  /\ recentlyPlayed = <<>>
  /\ stored = StartupStored
  /\ variant = "Startup"
  /\ histPrev = <<>>
  /\ histLast = NoTrack
  /\ nRecords = 0

\* playTrack called before the player was ready: its own setupPlayer() has
\* returned, TrackPlayer.reset() is issued
PlayTrackSetupDone == PlayTrackStep("setup", "reset", "reset")

StartupNext ==
  \/ Tick
  \/ InitSetupDone
  \/ InitLoadDone
  \/ PlaybackStateEvent
  \/ ActiveTrackChangedEvent
  \/ PhonePlay
  \/ PlayTrackSetupDone
  \/ PlayTrackStep("reset", "add", "add")
  \/ PlayTrackStep("add", "play", "play")
  \/ PlayTrackStep("play", "getPlaybackState", "state")
  \/ PlayTrackFinish
  \/ \E ch \in Channels :
       \/ ConnectEvent(ch)
       \/ ConnectGetState(ch)
       \/ ConnectBranch(ch)
       \/ ConnectPause(ch)
       \/ ConnectWait(ch)
       \/ ConnectTimerFired(ch)
       \/ ConnectSeekDone(ch)
       \/ ConnectPlayDone(ch)
       \/ ConnectCatch(ch)
  \/ ConnectSyncDone
  \/ ConnectSyncEnd

SpecStartup == StartupInit /\ [][StartupNext]_vars

\* ------------------------------------------------------- playTrack calls
\* App.js with the phone list only: every playTrack call comes from
\* handleTrackPress, no head-unit handler runs, and what happens between the
\* start of a call and its end is the call's own doing or that of the
\* TrackPlayer listeners its engine calls set off.
PhoneOnlyInit ==
  /\ ReconcilerInit
  /\ AuxInit
  /\ recentlyPlayed = <<>>
  /\ stored \in InitStored
  /\ variant = "Call"
  /\ histPrev = <<>>
  /\ histLast = NoTrack
  /\ nRecords = 0

CallNext ==
  \/ Tick
  \/ InitSetupDone
  \/ InitLoadDone
  \/ PlaybackStateEvent
  \/ ActiveTrackChangedEvent
  \/ PhonePlay
  \/ PlayTrackStep("reset", "add", "add")
  \/ PlayTrackStep("add", "play", "play")
  \/ PlayTrackStep("play", "getPlaybackState", "state")
  \/ PlayTrackFinish

SpecCall == PhoneOnlyInit /\ [][CallNext]_vars

\* ----------------------------------------------------------- TestMediaOnly
\* The media-only example app: play-from-id, playTrack without reset, the
\* history kept in React state and the browse tree rebuilt by an effect each
\* time the history changes.  "MediaOnly" is the variant with a Recently
\* Played folder, "MediaOnlyFlat" the variant without history.
MediaOnlyVariants == {"MediaOnly", "MediaOnlyFlat"}

\* the tree the browse tree effect passes to setMediaBrowseTree
TreeOf(v, recent) ==
  IF v = "MediaOnly" THEN BuildBrowseTree(recent) ELSE BuildFlatTree

\* state the media-only handlers never touch
appOnlyRest == <<isConnected, pendingAudioRestart, stored, published, loaded,
                 histPrev, histLast, nRecords, playerUp, sp, nSetup, lifeVars>>
appOnlyVars == <<appOnlyRest, connVars, callVars>>

\* setMediaBrowseTree has been called: a connect run that is followed has
\* seen the tree published
TreePublished ==
  connectRun' = IF connectRun.on THEN [connectRun EXCEPT !.tree = TRUE]
                ELSE connectRun

\* the app is mounted: the effects have run once, init() awaits setupPlayer
MediaOnlyInit ==
  /\ ReconcilerInit
  /\ recentlyPlayed = <<>>
  /\ stored = <<>>
  /\ variant \in MediaOnlyVariants
  /\ histPrev = <<>>
  /\ histLast = NoTrack
  /\ nRecords = 0
  /\ browseTree = TreeOf(variant, <<>>)
  /\ mediaId = NoTrack
  /\ notFound = FALSE
  /\ playerUp = TRUE
  /\ sp = [c \in SetupCallers |-> NoSetup]
  /\ nSetup = 0
  /\ LifeInit
  /\ CallInit

\* init(): setupPlayer() returned true; the two listeners are registered
MoInitDone ==
  /\ initPc = "setup"
  /\ isPlayerReady' = TRUE
  /\ initPc' = "ready"
  /\ UNCHANGED <<engVars, currentTrackRef, isPlayingRef, recentlyPlayed, pc,
                 ptTrack, nEvents, variant, browseTree, mediaId, notFound,
                 appOnlyVars>>

\* Event.PlaybackState listener: setPlaybackState(e.state)
MoPlaybackStateEvent ==
  /\ evState # ""
  /\ isPlayingRef' = (evState = "playing")
  /\ evState' = ""
  /\ UNCHANGED <<eng, evTrack, failures, currentTrackRef, recentlyPlayed,
                 isPlayerReady, initPc, pc, ptTrack, nEvents, variant,
                 browseTree, mediaId, notFound, appOnlyVars>>

\* Event.PlaybackActiveTrackChanged listener: trackRef.current = t ?? null
MoActiveTrackChangedEvent ==
  /\ evTrack # -1
  /\ currentTrackRef' = FindMediaItem(evTrack)
  /\ evTrack' = -1
  /\ UNCHANGED <<eng, evState, failures, isPlayingRef, recentlyPlayed,
                 isPlayerReady, initPc, pc, ptTrack, nEvents, variant,
                 browseTree, mediaId, notFound, appOnlyVars>>

\* playTrack(item) up to its first await: TrackPlayer.add(item); a throw
\* ends it in its catch block
MoPlayTrackBegin(item) ==
  /\ pc["playTrack"] = "idle"
  /\ \E ok \in BOOLEAN :
       /\ IssueCall("add", item, ok)
       /\ pc' = [pc EXCEPT !["playTrack"] = IF ok THEN "add" ELSE "idle"]
       /\ ptTrack' = IF ok THEN item ELSE NoTrack

\* playTrack: add() has returned; TrackPlayer.play()
MoPlayTrackPlay ==
  /\ variant \in MediaOnlyVariants
  /\ pc["playTrack"] = "add"
  /\ \E ok \in BOOLEAN :
       /\ IssueCall("play", 0, ok)
       /\ pc' = [pc EXCEPT !["playTrack"] = IF ok THEN "play" ELSE "idle"]
       /\ ptTrack' = IF ok THEN ptTrack ELSE NoTrack
  /\ UNCHANGED <<currentTrackRef, isPlayingRef, recentlyPlayed,
                 isPlayerReady, initPc, nEvents, variant, browseTree,
                 mediaId, notFound, appOnlyVars>>

\* playTrack: play() has returned; the item becomes current and, in the
\* variant with history, is recorded; the render that follows runs the
\* browse tree effect
MoPlayTrackFinish ==
  /\ variant \in MediaOnlyVariants
  /\ pc["playTrack"] = "play"
  /\ currentTrackRef' = ptTrack
  /\ recentlyPlayed' = IF variant = "MediaOnly"
                       THEN recordMediaOnly(recentlyPlayed, ptTrack)
                       ELSE recentlyPlayed
  /\ browseTree' = TreeOf(variant, recentlyPlayed')
  /\ TreePublished
  /\ pc' = [pc EXCEPT !["playTrack"] = "idle"]
  /\ ptTrack' = NoTrack
  /\ UNCHANGED <<engVars, isPlayingRef, isPlayerReady, initPc, nEvents,
                 variant, mediaId, notFound, appOnlyRest, connVars,
                 ptStart, syncQ, mediaSession>>

\* addMediaPlayFromIdListener callback: the id is looked up in mediaItems;
\* playTrack(item) if it is found, nothing otherwise
MoPlayFromId ==
  /\ Arrive
  /\ \E id \in Catalog \cup {ForeignTrack} :
       /\ mediaId' = id
       /\ IF FindMediaItem(id) # NoTrack
          THEN MoPlayTrackBegin(FindMediaItem(id))
          ELSE UNCHANGED <<engVars, pc, ptTrack>>
  /\ UNCHANGED <<currentTrackRef, isPlayingRef, recentlyPlayed,
                 isPlayerReady, initPc, variant, browseTree, notFound,
                 appOnlyVars>>

\* a track row is pressed on the phone: playTrack(item)
MoPhonePlay ==
  /\ Arrive
  /\ \E item \in Catalog : MoPlayTrackBegin(item)
  /\ UNCHANGED <<currentTrackRef, isPlayingRef, recentlyPlayed,
                 isPlayerReady, initPc, variant, browseTree, mediaId,
                 notFound, appOnlyVars>>

\* addMediaPauseListener callback: TrackPlayer.pause()
MoPauseCmd ==
  /\ variant = "MediaOnly"
  /\ Arrive
  /\ pc["pause"] = "idle"
  /\ \E ok \in BOOLEAN :
       /\ IssueCall("pause", 0, ok)
       /\ pc' = [pc EXCEPT !["pause"] = IF ok THEN "pause" ELSE "idle"]
  /\ UNCHANGED <<currentTrackRef, isPlayingRef, recentlyPlayed,
                 isPlayerReady, initPc, ptTrack, variant, browseTree,
                 mediaId, notFound, appOnlyVars>>

\* .then of the pause listener: setPlaybackState(State.Paused)
MoPauseCmdDone ==
  /\ variant = "MediaOnly"
  /\ pc["pause"] = "pause"
  /\ isPlayingRef' = FALSE
  /\ pc' = [pc EXCEPT !["pause"] = "idle"]
  /\ UNCHANGED <<engVars, currentTrackRef, recentlyPlayed, isPlayerReady,
                 initPc, ptTrack, nEvents, variant, browseTree, mediaId,
                 notFound, appOnlyVars>>

\* addMediaPlayListener callback: getPlaybackState() and getActiveTrack()
\* are issued
MoPlayCmd ==
  /\ variant = "MediaOnly"
  /\ Arrive
  /\ pc["play"] = "idle"
  /\ pc' = [pc EXCEPT !["play"] = "read"]
  /\ UNCHANGED <<engVars, currentTrackRef, isPlayingRef, recentlyPlayed,
                 isPlayerReady, initPc, ptTrack, variant, browseTree,
                 mediaId, notFound, appOnlyVars>>

\* the play listener has its two answers: play() when there is an active
\* track that does not play, playTrack(first recent) when there is none
MoPlayCmdBranch ==
  /\ variant = "MediaOnly"
  /\ pc["play"] = "read"
  /\ IF ActiveTrack(eng) # NoTrack /\ eng.state # "playing"
     THEN /\ \E ok \in BOOLEAN :
               /\ IssueCall("play", 0, ok)
               /\ pc' = [pc EXCEPT !["play"] = IF ok THEN "play" ELSE "idle"]
          /\ UNCHANGED ptTrack
     ELSE IF ActiveTrack(eng) = NoTrack /\ recentlyPlayed # <<>>
               /\ pc["playTrack"] = "idle"
     THEN \E ok \in BOOLEAN :
            /\ IssueCall("add", FirstRecent(recentlyPlayed), ok)
            /\ pc' = [pc EXCEPT !["play"] = "idle",
                                !["playTrack"] = IF ok THEN "add" ELSE "idle"]
            /\ ptTrack' = IF ok THEN FirstRecent(recentlyPlayed) ELSE NoTrack
     ELSE /\ pc' = [pc EXCEPT !["play"] = "idle"]
          /\ UNCHANGED <<engVars, ptTrack>>
  /\ UNCHANGED <<currentTrackRef, isPlayingRef, recentlyPlayed,
                 isPlayerReady, initPc, nEvents, variant, browseTree,
                 mediaId, notFound, appOnlyVars>>

\* the play listener after play(): setPlaybackState(State.Playing)
MoPlayCmdDone ==
  /\ variant = "MediaOnly"
  /\ pc["play"] = "play"
  /\ isPlayingRef' = TRUE
  /\ pc' = [pc EXCEPT !["play"] = "idle"]
  /\ UNCHANGED <<engVars, currentTrackRef, recentlyPlayed, isPlayerReady,
                 initPc, ptTrack, nEvents, variant, browseTree, mediaId,
                 notFound, appOnlyVars>>

MediaOnlyNext ==
  \/ Tick
  \/ MoInitDone
  \/ MoPlaybackStateEvent
  \/ MoActiveTrackChangedEvent
  \/ MoPlayFromId
  \/ MoPhonePlay
  \/ MoPlayTrackPlay
  \/ MoPlayTrackFinish
  \/ MoPauseCmd
  \/ MoPauseCmdDone
  \/ MoPlayCmd
  \/ MoPlayCmdBranch
  \/ MoPlayCmdDone

SpecMediaOnly == MediaOnlyInit /\ [][MediaOnlyNext]_vars

\* ------------------------------------------------- TestMediaOnly: connect
\* The media-only app when the head unit binds to it: the
\* addMediaBrowserConnectedListener callback, the syncMediaSession calls of
\* the handler and of the TrackPlayer listeners, and the browse tree effect.
\* syncMediaSession calls that may be in flight at once
MaxSyncs == 2

\* stateToString(state?.state)
stateToString(st) ==
  CASE st = "playing" -> "playing"
    [] st = "paused" -> "paused"
    [] st \in {"stopped", "none"} -> "stopped"
    [] OTHER -> "none"

\* syncMediaSession() up to its await: getPlaybackState() and getProgress()
\* are issued against engine e
SyncIssued(by, e) ==
  /\ Len(syncQ) < MaxSyncs
  /\ syncQ' = Append(syncQ, [by |-> by, state |-> stateToString(e.state)])

\* syncMediaSession() after its await: updateMediaPlaybackState gets the
\* state that was read and the title of trackRef.current as it is now
SyncSent(by) ==
  /\ syncQ # <<>>
  /\ Head(syncQ).by = by
  /\ mediaSession' = [state |-> Head(syncQ).state, title |-> currentTrackRef]
  /\ syncQ' = Tail(syncQ)

\* state the connect handler and the listeners never touch
mcFrame == <<isPlayerReady, initPc, variant, mediaId, notFound, appOnlyRest,
             ptStart>>

MoConnectInit ==
  /\ MediaOnlyInit
  /\ variant = "MediaOnly"

\* Event.PlaybackState listener: setPlaybackState(e.state), syncMediaSession()
McPlaybackStateEvent ==
  /\ evState # ""
  /\ isPlayingRef' = (evState = "playing")
  /\ evState' = ""
  /\ SyncIssued("listener", eng)
  /\ UNCHANGED <<eng, evTrack, failures, currentTrackRef, recentlyPlayed, pc,
                 ptTrack, nEvents, browseTree, connVars, mediaSession,
                 connectRun, mcFrame>>

\* Event.PlaybackActiveTrackChanged listener: trackRef.current = t ?? null,
\* syncMediaSession()
McActiveTrackChangedEvent ==
  /\ evTrack # -1
  /\ currentTrackRef' = FindMediaItem(evTrack)
  /\ evTrack' = -1
  /\ SyncIssued("listener", eng)
  /\ UNCHANGED <<eng, evState, failures, isPlayingRef, recentlyPlayed, pc,
                 ptTrack, nEvents, browseTree, connVars, mediaSession,
                 connectRun, mcFrame>>

\* a syncMediaSession() call of a listener resumes and updates the session
SyncDeliver ==
  /\ SyncSent("listener")
  /\ UNCHANGED <<engVars, currentTrackRef, isPlayingRef, recentlyPlayed, pc,
                 ptTrack, nEvents, browseTree, connVars, connectRun, mcFrame>>

\* .then of the pause listener: setPlaybackState(State.Paused),
\* syncMediaSession()
McPauseCmdDone ==
  /\ pc["pause"] = "pause"
  /\ isPlayingRef' = FALSE
  /\ pc' = [pc EXCEPT !["pause"] = "idle"]
  /\ SyncIssued("listener", eng)
  /\ UNCHANGED <<engVars, currentTrackRef, recentlyPlayed, ptTrack, nEvents,
                 browseTree, connVars, mediaSession, connectRun, mcFrame>>

\* the call the handler has just issued is written to its log
McLogged(c) == cLog' = [cLog EXCEPT !["browser"] = Append(cLog["browser"], c)]

\* addMediaBrowserConnectedListener callback up to its first await:
\* syncMediaSession()
McConnect ==
  /\ variant = "MediaOnly"
  /\ Arrive
  /\ pc["browser"] = "idle"
  /\ SyncIssued("browser", eng)
  /\ pc' = [pc EXCEPT !["browser"] = "sync1"]
  /\ connectRun' = [on |-> TRUE, tree |-> FALSE]
  /\ cLog' = [cLog EXCEPT !["browser"] = <<>>]
  /\ cActive' = [cActive EXCEPT !["browser"] = NoTrack]
  /\ cWas' = [cWas EXCEPT !["browser"] = FALSE]
  /\ cPos' = [cPos EXCEPT !["browser"] = 0]
  /\ UNCHANGED <<engVars, currentTrackRef, isPlayingRef, recentlyPlayed,
                 ptTrack, browseTree, mediaSession, mcFrame>>

\* the first sync is done: getPlaybackState() and getActiveTrack() are read
McSyncDone ==
  /\ pc["browser"] = "sync1"
  /\ SyncSent("browser")
  /\ cWas' = [cWas EXCEPT !["browser"] = (eng.state = "playing")]
  /\ cActive' = [cActive EXCEPT !["browser"] = ActiveTrack(eng)]
  /\ pc' = [pc EXCEPT !["browser"] = "read"]
  /\ UNCHANGED <<engVars, currentTrackRef, isPlayingRef, recentlyPlayed,
                 ptTrack, nEvents, browseTree, cPos, cLog, connectRun,
                 mcFrame>>

\* the two reads have returned: restart when the active catalog track was
\* playing, play() when it was not, playTrack(first recent) and a sync when
\* there is no catalog track but a history, nothing otherwise; a throw ends
\* the handler in its catch block, which only warns
McBranch ==
  /\ pc["browser"] = "read"
  /\ LET mediaTrack == FindMediaItem(cActive["browser"])
     IN IF mediaTrack # NoTrack
        THEN /\ currentTrackRef' = mediaTrack
             /\ IF cWas["browser"]
                THEN /\ cPos' = [cPos EXCEPT !["browser"] = eng.pos]
                     /\ McLogged(Call("getProgress", eng.pos))
                     /\ pc' = [pc EXCEPT !["browser"] = "getProgress"]
                     /\ UNCHANGED engVars
                ELSE /\ \E ok \in BOOLEAN :
                          /\ IssueCall("play", 0, ok)
                          /\ pc' = [pc EXCEPT !["browser"] =
                                      IF ok THEN "play" ELSE "idle"]
                     /\ McLogged(Call("play", 0))
                     /\ UNCHANGED cPos
             /\ UNCHANGED <<ptTrack, syncQ>>
        ELSE IF recentlyPlayed # <<>>
        THEN /\ pc["playTrack"] = "idle"
             /\ \E ok \in BOOLEAN :
                  /\ IssueCall("add", FirstRecent(recentlyPlayed), ok)
                  /\ pc' = [pc EXCEPT !["playTrack"] =
                              IF ok THEN "add" ELSE "idle",
                                      !["browser"] = "sync2"]
                  /\ ptTrack' = IF ok THEN FirstRecent(recentlyPlayed)
                                ELSE NoTrack
             /\ SyncIssued("browser", eng')
             /\ McLogged(Call("playTrack", FirstRecent(recentlyPlayed)))
             /\ UNCHANGED <<currentTrackRef, cPos>>
        ELSE /\ pc' = [pc EXCEPT !["browser"] = "idle"]
             /\ UNCHANGED <<engVars, currentTrackRef, ptTrack, syncQ, cPos,
                            cLog>>
  /\ UNCHANGED <<isPlayingRef, recentlyPlayed, nEvents, browseTree, cActive,
                 cWas, mediaSession, connectRun, mcFrame>>

\* the handler resumes at `from` and issues TrackPlayer.<op>
McCall(from, op, a, to) ==
  /\ pc["browser"] = from
  /\ \E ok \in BOOLEAN :
       /\ IssueCall(op, a, ok)
       /\ pc' = [pc EXCEPT !["browser"] = IF ok THEN to ELSE "idle"]
  /\ McLogged(Call(op, a))
  /\ UNCHANGED <<currentTrackRef, isPlayingRef, recentlyPlayed, ptTrack,
                 nEvents, browseTree, cActive, cWas, cPos, syncQ,
                 mediaSession, connectRun, mcFrame>>

\* restart: getProgress() has returned, pause()
McPause == McCall("getProgress", "pause", 0, "wait")

\* restart: the 2000 ms timer has fired; seekTo(position) if position > 0,
\* else play()
McTimerFired ==
  IF ShouldSeek(cPos["browser"])
  THEN McCall("wait", "seek", cPos["browser"], "seek")
  ELSE McCall("wait", "play", 0, "play")

\* restart: seekTo() has returned, play()
McSeekDone == McCall("seek", "play", 0, "play")

\* play() has returned (restart or resume): setPlaybackState(State.Playing)
\* and the trailing syncMediaSession()
McPlayDone ==
  /\ pc["browser"] = "play"
  /\ isPlayingRef' = TRUE
  /\ SyncIssued("browser", eng)
  /\ pc' = [pc EXCEPT !["browser"] = "sync2"]
  /\ UNCHANGED <<engVars, currentTrackRef, recentlyPlayed, ptTrack, nEvents,
                 browseTree, connVars, mediaSession, connectRun, mcFrame>>

\* the trailing sync is done: the handler ends
McSyncEnd ==
  /\ pc["browser"] = "sync2"
  /\ SyncSent("browser")
  /\ pc' = [pc EXCEPT !["browser"] = "idle"]
  /\ UNCHANGED <<engVars, currentTrackRef, isPlayingRef, recentlyPlayed,
                 ptTrack, nEvents, browseTree, connVars, connectRun, mcFrame>>

MoConnectNext ==
  \/ Tick
  \/ MoInitDone
  \/ McPlaybackStateEvent
  \/ McActiveTrackChangedEvent
  \/ SyncDeliver
  \/ MoPhonePlay
  \/ MoPlayTrackPlay
  \/ MoPlayTrackFinish
  \/ MoPauseCmd
  \/ McPauseCmdDone
  \/ McConnect
  \/ McSyncDone
  \/ McBranch
  \/ McPause
  \/ McTimerFired
  \/ McSeekDone
  \/ McPlayDone
  \/ McSyncEnd

\* every continuation the event loop holds is run: delivered engine events,
\* resolved promises and the fired timer; the events of the user and of the
\* head unit (MoPhonePlay, MoPauseCmd, McConnect) may or may not come
MoConnectFairness ==
  /\ WF_vars(MoInitDone)
  /\ WF_vars(McPlaybackStateEvent)
  /\ WF_vars(McActiveTrackChangedEvent)
  /\ WF_vars(SyncDeliver)
  /\ WF_vars(MoPlayTrackPlay)
  /\ WF_vars(MoPlayTrackFinish)
  /\ WF_vars(McPauseCmdDone)
  /\ WF_vars(McSyncDone)
  /\ WF_vars(McBranch)
  /\ WF_vars(McPause)
  /\ WF_vars(McTimerFired)
  /\ WF_vars(McSeekDone)
  /\ WF_vars(McPlayDone)
  /\ WF_vars(McSyncEnd)

SpecMoConnect == MoConnectInit /\ [][MoConnectNext]_vars /\ MoConnectFairness

\* ------------------------------------------- the app without media session
\* The variant of App.js in src/unnamed/part_002: no media session and no
\* media commands; the now-playing screen is a screen of its own with a Stop
\* button, updateNowPlayingScreen returns at once when it is given no track,
\* and playTrack has no getPlaybackState() read after play().
CarAppInit ==
  /\ ReconcilerInit
  /\ AuxInit
  /\ recentlyPlayed = <<>>
  /\ stored \in InitStored
  /\ variant = "CarApp"
  /\ histPrev = <<>>
  /\ histLast = NoTrack
  /\ nRecords = 0

\* playTrack after play(): the track becomes current, is recorded and saved
CaPlayTrackFinish == PlayTrackFinishAt("play")

\* the Stop button of the now-playing screen: stopTrack()
CaStopPress == published.track # NoTrack /\ StopCmd

\* stopTrack() after TrackPlayer.reset(): the current track is cleared and
\* popToRoot() is called; no screen is registered
CaStopDone ==
  /\ variant = "CarApp"
  /\ pc["stop"] = "reset"
  /\ currentTrackRef' = NoTrack
  /\ pc' = [pc EXCEPT !["stop"] = "idle"]
  /\ UNCHANGED <<engVars, isPlayingRef, published, isConnected,
                 pendingAudioRestart, recentlyPlayed, stored, isPlayerReady,
                 initPc, loaded, cActive, cWas, cPos, cLog, ptTrack, nEvents,
                 variant, histPrev, histLast, nRecords, auxVars>>

CarAppNext ==
  \/ Tick
  \/ InitSetupDone
  \/ InitLoadDone
  \/ PlaybackStateEvent
  \/ ActiveTrackChangedEvent
  \/ PhonePlay
  \/ PlayTrackStep("reset", "add", "add")
  \/ PlayTrackStep("add", "play", "play")
  \/ CaPlayTrackFinish
  \/ CaStopPress
  \/ StopCmdReset
  \/ CaStopDone

SpecCarApp == CarAppInit /\ [][CarAppNext]_vars

\* ------------------------------------------------------------ setupPlayer
\* setupPlayer() called by init() and by playTrack (when the player is not
\* ready), possibly at the same time.  The native player is initialised or
\* not: TrackPlayer.setupPlayer throws when it is, and may fail when it is
\* not; TrackPlayer.getPlaybackState throws exactly when it is not.
SetupInit ==
  /\ ReconcilerInit
  /\ recentlyPlayed = <<>>
  /\ stored = <<>>
  /\ variant = "App"
  /\ histPrev = <<>>
  /\ histLast = NoTrack
  /\ nRecords = 0
  /\ browseTree = <<>>
  /\ mediaId = NoTrack
  /\ notFound = FALSE
  /\ playerUp \in BOOLEAN
  /\ sp = [c \in SetupCallers |-> NoSetup]
  /\ nSetup = 0
  /\ LifeInit
  /\ CallInit

\* state setupPlayer never touches
setupFrame == <<engVars, cacheVars, connVars, histVars, initVars,
                isConnected, pendingAudioRestart, recentlyPlayed, stored, pc,
                ptTrack, nEvents, browseTree, mediaId, notFound, lifeVars,
                callVars>>

\* seeded fault: an engine that is already set up counts as a failure
SetupCatchResult_Fails(stateRead) == "false"

\* the catch block of setupPlayer: true when getPlaybackState() answered,
\* false when it threw
SetupCatchResult(stateRead) == IF stateRead THEN "true" ELSE "false"

\* setupPlayer() is called: TrackPlayer.setupPlayer() is issued; when it
\* throws, the catch block issues getPlaybackState()
SetupCall(c) ==
  /\ sp[c].at = "idle"
  /\ nSetup < MaxSetupCalls
  /\ nSetup' = nSetup + 1
  /\ \E ok \in BOOLEAN :
       /\ ok => ~playerUp
       /\ playerUp' = (playerUp \/ ok)
       /\ sp' = [sp EXCEPT ![c] = [at |-> IF ok THEN "setup" ELSE "read",
                                   result |-> "none", wasUp |-> playerUp]]
  /\ UNCHANGED setupFrame

\* TrackPlayer.setupPlayer() has returned: updateOptions() is issued; when it
\* throws, the catch block issues getPlaybackState()
SetupOptions(c) ==
  /\ sp[c].at = "setup"
  /\ \E ok \in BOOLEAN :
       sp' = [sp EXCEPT ![c].at = IF ok THEN "options" ELSE "read"]
  /\ UNCHANGED <<setupFrame, playerUp, nSetup>>

\* updateOptions() has returned: return true
SetupReturn(c) ==
  /\ sp[c].at = "options"
  /\ sp' = [sp EXCEPT ![c].at = "idle", ![c].result = "true"]
  /\ UNCHANGED <<setupFrame, playerUp, nSetup>>

\* the catch block: getPlaybackState() has answered or thrown
SetupCatch(c) ==
  /\ sp[c].at = "read"
  /\ sp' = [sp EXCEPT ![c].at = "idle",
                      ![c].result = SetupCatchResult(playerUp)]
  /\ UNCHANGED <<setupFrame, playerUp, nSetup>>

SetupNext ==
  \E c \in SetupCallers :
    \/ SetupCall(c)
    \/ SetupOptions(c)
    \/ SetupReturn(c)
    \/ SetupCatch(c)

SpecSetup == SetupInit /\ [][SetupNext]_vars

\* ------------------------------------------------- mount and teardown
\* The component is mounted and torn down.  Each mount runs the effects once:
\* the head-unit listeners are registered at once, init() registers the
\* engine listeners after its awaits and keeps their handles in the variables
\* of its effect; the cleanups remove what those variables hold when they run.
LifecycleVariants == {"App", "MediaOnly"}

\* the engine listeners init() registers
InitRegisters(v) ==
  IF v = "App" THEN EngineListeners
  ELSE {"PlaybackState", "PlaybackActiveTrackChanged"}

\* the engine listeners whose handle init() assigns to a variable
InitHolds(v) ==
  IF v = "App"
  THEN {"PlaybackState", "PlaybackActiveTrackChanged", "PlaybackProgressUpdated"}
  ELSE {"PlaybackState", "PlaybackActiveTrackChanged"}

\* the head-unit listeners the effects register and their cleanups remove
EffectRegisters(v) ==
  IF v = "App" THEN HeadUnitListeners \ {"mediaPlayFromId"}
  ELSE {"mediaBrowserConnected", "mediaPlay", "mediaPause", "mediaPlayFromId"}

AddListeners(reg, names) ==
  [n \in DOMAIN reg |-> IF n \in names THEN reg[n] + 1 ELSE reg[n]]

RemoveListeners(reg, names) ==
  [n \in DOMAIN reg |-> IF n \in names THEN reg[n] - 1 ELSE reg[n]]

\* the component is mounted: its last mount has not been torn down
Mounted == effects # <<>> /\ ~effects[Len(effects)].torn

LifecycleInit ==
  /\ ReconcilerInit
  /\ recentlyPlayed = <<>>
  /\ stored = <<>>
  /\ variant \in LifecycleVariants
  /\ histPrev = <<>>
  /\ histLast = NoTrack
  /\ nRecords = 0
  /\ browseTree = <<>>
  /\ mediaId = NoTrack
  /\ notFound = FALSE
  /\ playerUp = TRUE
  /\ sp = [c \in SetupCallers |-> NoSetup]
  /\ nSetup = 0
  /\ LifeInit
  /\ CallInit

\* state mounting and tearing down never touch
lifeFrame == <<engVars, cacheVars, connVars, histVars, initVars, isConnected,
               pendingAudioRestart, recentlyPlayed, stored, pc, ptTrack,
               nEvents, browseTree, mediaId, notFound, playerUp, sp, nSetup,
               registerLog, callVars>>

\* the component mounts: the effects run, init() is called and suspends in
\* setupPlayer()
Mount ==
  /\ ~Mounted
  /\ Len(effects) < MaxMounts
  /\ effects' = Append(effects, [at |-> "setup", torn |-> FALSE, held |-> {}])
  /\ registered' = AddListeners(registered, EffectRegisters(variant))
  /\ UNCHANGED lifeFrame

\* init() of mount i: setupPlayer() has returned.  App.js goes on to
\* loadRecentlyPlayed(); the media-only app registers its listeners when the
\* player is ready and returns when it is not
LifecycleSetupDone(i) ==
  /\ i <= Len(effects)
  /\ effects[i].at = "setup"
  /\ IF variant = "App"
     THEN /\ effects' = [effects EXCEPT ![i].at = "load"]
          /\ UNCHANGED registered
     ELSE \E ok \in BOOLEAN :
            /\ effects' = [effects EXCEPT
                             ![i].at = "done",
                             ![i].held = IF ok THEN InitHolds(variant) ELSE {}]
            /\ registered' = IF ok
                             THEN AddListeners(registered, InitRegisters(variant))
                             ELSE registered
  /\ UNCHANGED lifeFrame

\* init() of mount i in App.js: loadRecentlyPlayed() has returned, the four
\* engine listeners are registered
LifecycleLoadDone(i) ==
  /\ i <= Len(effects)
  /\ effects[i].at = "load"
  /\ effects' = [effects EXCEPT ![i].at = "done", ![i].held = InitHolds(variant)]
  /\ registered' = AddListeners(registered, InitRegisters(variant))
  /\ UNCHANGED lifeFrame

\* the component is torn down: the cleanups of its effects run
Unmount ==
  /\ Mounted
  /\ LET i == Len(effects)
     IN /\ effects' = [effects EXCEPT ![i].torn = TRUE, ![i].held = {}]
        /\ registered' = RemoveListeners(
                           RemoveListeners(registered, EffectRegisters(variant)),
                           effects[i].held)
  /\ UNCHANGED lifeFrame

LifecycleNext ==
  \/ Mount
  \/ Unmount
  \/ \E i \in 1..MaxMounts : LifecycleSetupDone(i)
  \/ \E i \in 1..MaxMounts : LifecycleLoadDone(i)

SpecLifecycle == LifecycleInit /\ [][LifecycleNext]_vars

\* ------------------------------------------------------ the car screens
\* updateNowPlayingScreen and updateRecentlyPlayedScreen: what they pass to
\* CarProjection.registerScreen.  A track's title is written as its id.
NowPlayingTemplate(track, playing) ==
  IF track = NoTrack
  THEN [name |-> "main", title |-> "Now Playing",
        rows |-> <<"No track playing">>, actions |-> <<>>]
  ELSE [name |-> "main",
        title |-> IF playing THEN "Now Playing" ELSE "Paused",
        rows |-> <<ItemId(track),
                   IF playing THEN "Status: Playing" ELSE "Status: Paused">>,
        actions |-> <<IF playing THEN "Pause" ELSE "Play", "Stop">>]

RecentlyPlayedTemplate(recent) ==
  IF recent = <<>>
  THEN [name |-> "recentlyPlayed", title |-> "Recently Played",
        rows |-> <<"Nothing recently played.">>, actions |-> <<"Back">>]
  ELSE [name |-> "recentlyPlayed", title |-> "Recently Played",
        rows |-> [i \in 1..Len(recent) |-> ItemId(recent[i])],
        actions |-> <<"Back">>]

\* the tracks a screen may be asked to show
ScreenTracks == {NoTrack} \cup Catalog \cup {ForeignTrack}

\* histories the reconciler may hold when a screen is registered
PublishHistories == {<<>>, <<1>>, <<ForeignTrack, 1>>}

\* the reconciler in any of its cache states, nothing in flight
PublishInit ==
  /\ eng = [queue |-> <<>>, state |-> "none", pos |-> 0]
  /\ evState = ""
  /\ evTrack = -1
  /\ failures = 0
  /\ currentTrackRef \in {NoTrack} \cup Catalog
  /\ isPlayingRef \in BOOLEAN
  /\ isConnected \in BOOLEAN
  /\ pendingAudioRestart = NoTrack
  /\ recentlyPlayed \in PublishHistories
  /\ stored = recentlyPlayed
  /\ isPlayerReady = TRUE
  /\ published = Screen(NoTrack, FALSE)
  /\ initPc = "ready"
  /\ loaded = stored
  /\ pc = [h \in Handlers |-> "idle"]
  /\ cActive = [c \in Channels |-> NoTrack]
  /\ cWas = [c \in Channels |-> FALSE]
  /\ cPos = [c \in Channels |-> 0]
  /\ cLog = [c \in Channels |-> <<>>]
  /\ ptTrack = NoTrack
  /\ nEvents = 0
  /\ variant = "App"
  /\ histPrev = <<>>
  /\ histLast = NoTrack
  /\ nRecords = 0
  /\ AuxInit

\* state registering a screen never touches
publishFrame == <<engVars, connVars, histVars, initVars, currentTrackRef,
                  isPlayingRef, isConnected, pendingAudioRestart,
                  recentlyPlayed, stored, pc, ptTrack, nEvents, browseTree,
                  mediaId, notFound, playerUp, sp, nSetup, effects,
                  registered, callVars>>

\* one CarProjection.registerScreen call as the log keeps it
Registered(track, playing, screen) ==
  [track |-> track, playing |-> playing, screen |-> screen]

\* seeded fault: publishing takes the track as the current one
UpdateNowPlayingScreen_SetsCache(track, playing) ==
  /\ Len(registerLog) < MaxPublishes
  /\ registerLog' = Append(registerLog,
                      Registered(track, playing, NowPlayingTemplate(track, playing)))
  /\ published' = Screen(track, playing)
  /\ currentTrackRef' = track
  /\ UNCHANGED <<engVars, connVars, histVars, initVars,
                 isPlayingRef, isConnected, pendingAudioRestart,
                 recentlyPlayed, stored, pc, ptTrack, nEvents, browseTree,
                 mediaId, notFound, playerUp, sp, nSetup, effects,
                 registered, callVars>>

\* updateNowPlayingScreen(track, playing)
UpdateNowPlayingScreen(track, playing) ==
  /\ Len(registerLog) < MaxPublishes
  /\ registerLog' = Append(registerLog,
                      Registered(track, playing, NowPlayingTemplate(track, playing)))
  /\ published' = Screen(track, playing)
  /\ UNCHANGED publishFrame

\* updateRecentlyPlayedScreen()
UpdateRecentlyPlayedScreen ==
  /\ Len(registerLog) < MaxPublishes
  /\ registerLog' = Append(registerLog,
                      Registered(NoTrack, FALSE,
                                 RecentlyPlayedTemplate(recentlyPlayed)))
  /\ UNCHANGED <<published, publishFrame>>

PublishNext ==
  \/ \E track \in ScreenTracks, playing \in BOOLEAN :
       UpdateNowPlayingScreen(track, playing)
  \/ UpdateRecentlyPlayedScreen

SpecPublish == PublishInit /\ [][PublishNext]_vars

\* ----------------------------------------------- the history list alone
\* The list updaters applied to bounded inputs: a start list of at most N
\* entries with unique ids, then record calls with any id.
HistIds == 1..NumIds

Cap(v) == IF v = "App" THEN MAX_RECENT_ITEMS ELSE MAX_RECENT

Record(v, prev, t) ==
  IF v = "App" THEN addToRecentlyPlayed(prev, t) ELSE recordMediaOnly(prev, t)

\* k ids in a row, starting after id s
Run(k, s) == [i \in 1..k |-> ((i + s - 1) % NumIds) + 1]

StartLists(n) == {Run(k, s) : k \in 0..n, s \in 0..(NumIds - 1)}

HistInit ==
  /\ ReconcilerInit
  /\ AuxInit
  /\ stored = <<>>
  /\ variant \in {"App", "MediaOnly"}
  /\ recentlyPlayed \in StartLists(Cap(variant))
  /\ histPrev = recentlyPlayed
  /\ histLast = NoTrack
  /\ nRecords = 0

RecordCall ==
  /\ nRecords < MaxRecords
  /\ \E t \in HistIds :
       /\ recentlyPlayed' = Record(variant, recentlyPlayed, t)
       /\ histLast' = t
  /\ histPrev' = recentlyPlayed
  /\ nRecords' = nRecords + 1
  /\ UNCHANGED <<engVars, currentTrackRef, isPlayingRef, isConnected,
                 pendingAudioRestart, stored, isPlayerReady, published,
                 initPc, loaded, pc, cActive, cWas, cPos, cLog, ptTrack,
                 nEvents, variant, auxVars>>

HistNext == RecordCall

SpecHistory == HistInit /\ [][HistNext]_vars

\* ----------------------------------------------------------------- claims
NoDuplicates(s) == \A i, j \in 1..Len(s) : s[i] = s[j] => i = j

\* C7: after any sequence of record calls from a list of at most N entries
\* with unique ids, the recently-played list holds at most N entries
\* (N = 10 in App.js, 3 in TestMediaOnly) and no id twice.
C7_HistoryBound ==
  /\ Len(recentlyPlayed) <= Cap(variant)
  /\ NoDuplicates(recentlyPlayed)

\* C7 witness: a full App.js list took a new id and is still full
C7_Witness ==
  /\ variant = "App"
  /\ nRecords > 0
  /\ Len(histPrev) = MAX_RECENT_ITEMS
  /\ histLast \notin Elems(histPrev)
  /\ Len(recentlyPlayed) = MAX_RECENT_ITEMS

\* position of id x in list s (0 when absent)
IndexOf(s, x) ==
  IF x \in Elems(s) THEN CHOOSE i \in 1..Len(s) : s[i] = x ELSE 0

\* C8: a record call puts the track at index 0; the other entries are
\* entries of the previous list in their previous relative order, none is
\* lost except the last one of a full list that takes a new id; and when the
\* id was already present the length does not change.
C8_RecordMovesToFront ==
  nRecords > 0 =>
    /\ recentlyPlayed # <<>>
    /\ recentlyPlayed[1] = histLast
    /\ \A i \in 2..Len(recentlyPlayed) : recentlyPlayed[i] \in Elems(histPrev)
    /\ \A i, j \in 2..Len(recentlyPlayed) :
         i < j => IndexOf(histPrev, recentlyPlayed[i])
                    < IndexOf(histPrev, recentlyPlayed[j])
    /\ \A x \in Elems(histPrev) \ Elems(recentlyPlayed) :
         /\ Len(histPrev) = Cap(variant)
         /\ histLast \notin Elems(histPrev)
         /\ x = histPrev[Len(histPrev)]
    /\ histLast \in Elems(histPrev) => Len(recentlyPlayed) = Len(histPrev)

\* C8 witness: an id in the middle of the list was recorded again
C8_Witness ==
  /\ nRecords > 0
  /\ Len(histPrev) >= 3
  /\ histLast \in Elems(histPrev)
  /\ histPrev[1] # histLast
  /\ histPrev[Len(histPrev)] # histLast

\* a routing restart of channel ch is in flight: its pause() has been issued
\* and its final play() has not
RestartInFlight(ch) == pc[ch] \in {"pause", "wait", "seek"}

\* the play command issues an engine call in this step: resumeTrack's play()
\* or playTrack's reset()
PlayCommandCall ==
  /\ PlayCmd
  /\ \/ currentTrackRef # NoTrack /\ ~isPlayingRef
     \/ currentTrackRef = NoTrack /\ recentlyPlayed # <<>>

CommandCall == PlayCommandCall \/ PauseCmd \/ StopCmd \/ StopCmdReset

\* a transport command arrives and issues its first engine call at once
CommandStartCall == PlayCommandCall \/ PauseCmd \/ StopCmd

\* C1: while a routing restart is in flight (between its pause call and its
\* final play call) no transport command issues an engine call.
C1_RestartAtomic ==
  [][(\E ch \in Channels : RestartInFlight(ch)) => ~CommandCall]_vars

\* the calls of a complete routing restart that read position p for track t
RestartSequence(p, t) ==
  <<Call("getProgress", p), Call("pause", 0), Call("wait", 0)>>
    \o (IF p > 0 THEN <<Call("seek", p)>> ELSE <<>>)
    \o <<Call("play", 0), Call("publishPlaying", t)>>

IsPrefix(a, b) == Len(a) <= Len(b) /\ SubSeq(b, 1, Len(a)) = a

\* an engine call of the current run of the connect handler has thrown
Threw(ch) ==
  pc[ch] = "catch" \/ \E i \in 1..Len(cLog[ch]) : cLog[ch][i].op = "catch"

\* the connect handler has left its if / else-if / else
BranchDone(ch) == pc[ch] \in {"idle", "sync2"}

\* C2: a connect handler that read an active catalog track with status
\* playing issues, as long as no call throws, getProgress, pause, the wait,
\* seekTo(the position read) iff that position is > 0, play, in this order,
\* and ends by publishing playing for that track.
C2_RestartOrder ==
  \A ch \in Channels :
    (cActive[ch] \in Catalog /\ cWas[ch] /\ ~Threw(ch)) =>
      /\ IsPrefix(cLog[ch], RestartSequence(cPos[ch], cActive[ch]))
      /\ BranchDone(ch) => cLog[ch] = RestartSequence(cPos[ch], cActive[ch])

\* C2 witness: a restart that sought back to a position > 0 has completed
C2_Witness ==
  \E ch \in Channels :
    /\ cActive[ch] \in Catalog
    /\ cPos[ch] > 0
    /\ pc[ch] = "idle"
    /\ cLog[ch] = RestartSequence(cPos[ch], cActive[ch])

\* C3: handling session-ended issues no engine call: the engine (status,
\* active track, position) is the same after the event as before it.
C3_DisconnectKeepsAudio ==
  [][SessionEnded => (eng' = eng /\ failures' = failures)]_vars

\* C3 witness: the session ended after a connect and the engine still plays
C3_Witness ==
  /\ ~isConnected
  /\ \E ch \in Channels : cLog[ch] # <<>>
  /\ eng.state = "playing"
  /\ ActiveTrack(eng) # NoTrack

\* the handlers of connection events and transport commands
CarHandlers == Channels \cup {"play", "pause", "stop"}

\* C4: a transport command that arrives while an earlier connection or
\* command handler has not settled issues no engine call before that handler
\* has settled.
C4_Serialized ==
  [][(\E h \in CarHandlers : pc[h] # "idle") => ~CommandStartCall]_vars

\* C5: a play command received while the active track is playing issues no
\* engine call and starts no playTrack.
C5_PlayWhilePlayingNoop ==
  [][(PlayCmd /\ ActiveTrack(eng) # NoTrack /\ eng.state = "playing")
       => (eng' = eng /\ failures' = failures /\ pc' = pc)]_vars

\* C6: a pause command received while the engine is not playing issues no
\* engine call.
C6_PauseWhileNotPlayingNoop ==
  [][(PauseCmd /\ eng.state # "playing")
       => (eng' = eng /\ failures' = failures /\ pc' = pc)]_vars

\* the calls of a complete resume of track t
ResumeSequence(t) == <<Call("play", 0), Call("publishPlaying", t)>>

C10_AutoPlayOrBlank ==
  [][\A ch \in Channels :
       (ConnectBranch(ch) /\ cActive[ch] = NoTrack) =>
         IF recentlyPlayed # <<>>
         THEN /\ cLog'[ch] = <<Call("playTrack", recentlyPlayed[1])>>
              /\ failures' = failures =>
                   /\ pc'["playTrack"] = "reset"
                   /\ ptTrack' = recentlyPlayed[1]
                   /\ eng' = EngineReset(eng)
         ELSE /\ cLog'[ch] = <<Call("publishNone", 0)>>
              /\ eng' = eng
              /\ failures' = failures
              /\ pc'["playTrack"] = pc["playTrack"]
              /\ published' = Screen(NoTrack, FALSE)]_vars

\* C10 witness: the track a connect auto-played from the history plays
C10_Witness ==
  \E ch \in Channels :
    /\ cActive[ch] = NoTrack
    /\ cLog[ch] # <<>>
    /\ cLog[ch][1].op = "playTrack"
    /\ recentlyPlayed # <<>>
    /\ cLog[ch][1].a = recentlyPlayed[1]
    /\ ActiveTrack(eng) = cLog[ch][1].a
    /\ eng.state = "playing"
    /\ currentTrackRef = cLog[ch][1].a

\* a play-from-id event whose id is not in the catalog is handled
UnknownIdPlayFromId == MoPlayFromId /\ FindMediaItem(mediaId') = NoTrack

\* what a play-from-id event with an unknown id must leave alone
NoSideEffects ==
  /\ eng' = eng
  /\ failures' = failures
  /\ pc' = pc
  /\ currentTrackRef' = currentTrackRef
  /\ recentlyPlayed' = recentlyPlayed
  /\ browseTree' = browseTree
  /\ published' = published

\* C11: a play-from-id event with an id that is not in the catalog is
\* reported as not-found and changes neither the engine, the current track,
\* the history, the browse tree nor the published screen.
C11_UnknownIdReported ==
  [][UnknownIdPlayFromId => (notFound' /\ NoSideEffects)]_vars

\* the part of C11 the code keeps: an unknown id has no side effects
C11_UnknownIdIgnored == [][UnknownIdPlayFromId => NoSideEffects]_vars

\* C12: in the variant with history a playTrack run records its track (the
\* track is then first in the history) exactly when add() and play() both
\* succeeded, a run that threw leaves the history as it was, nothing else
\* changes the history, and whenever no playTrack is in flight the Recently
\* Played node of the browse tree lists the history.
C12_RecordOnSuccess ==
  [][variant = "MediaOnly" =>
       /\ IF pc["playTrack"] = "play" /\ pc'["playTrack"] = "idle"
          THEN /\ recentlyPlayed' # <<>>
               /\ recentlyPlayed'[1] = ptTrack
               /\ ptTrack \in Catalog
          ELSE recentlyPlayed' = recentlyPlayed
       /\ pc'["playTrack"] = "idle" =>
            browseTree'[RECENTLY_PLAYED_ID] = MapLeaves(recentlyPlayed')]_vars

\* C12 witness: the track of a play-from-id has been recorded and the
\* browse tree shows it first in Recently Played
C12_Witness ==
  /\ variant = "MediaOnly"
  /\ mediaId \in Catalog
  /\ pc["playTrack"] = "idle"
  /\ recentlyPlayed # <<>>
  /\ recentlyPlayed[1] = mediaId
  /\ browseTree[RECENTLY_PLAYED_ID][1].id = ItemId(mediaId)

\* the App.js side of C12: playTrack records its track exactly when it has
\* come through reset, add, play and getPlaybackState without a throw;
\* besides it only loadRecentlyPlayed changes the history
C12_AppRecordOnSuccess ==
  [][IF pc["playTrack"] = "state" /\ pc'["playTrack"] = "idle"
     THEN recentlyPlayed' # <<>> /\ recentlyPlayed'[1] = ptTrack
     ELSE recentlyPlayed' = recentlyPlayed \/ InitLoadDone]_vars

\* C13: a stop command whose stop() call succeeded has stopped the engine,
\* and when the handler has come to its end the cached current track is
\* none, the cached playing flag is false and the now-playing screen last
\* registered is the nothing-playing one.
C13_StopClearsAll ==
  [][/\ (StopCmd /\ pc'["stop"] = "stop") => eng'.state = "stopped"
     /\ (StopCmdDone \/ CaStopDone) =>
          /\ currentTrackRef' = NoTrack
          /\ ~isPlayingRef'
          /\ published' = Screen(NoTrack, FALSE)]_vars

\* a TrackPlayer event listener registers the main screen in this step: the
\* PlaybackState listener does whenever a current track is set, and the
\* render after either listener does when track or flag changed
EventPublishes ==
  \/ PlaybackStateEvent /\ currentTrackRef # NoTrack
  \/ (PlaybackStateEvent \/ ActiveTrackChangedEvent) /\ published' # published

\* C14: while no channel is connected, handling a TrackPlayer event updates
\* the caches but registers no screen with the head unit.
C14_NoPublishWhenDisconnected == [][~isConnected => ~EventPublishes]_vars

\* C15: the end of a routing restart registers no screen when the session
\* has ended in the meantime.
C15_NoPublishAfterDisconnect ==
  [][\A ch \in Channels :
       (ConnectPlayDone(ch) /\ cWas[ch] /\ ~isConnected) =>
         (cLog'[ch] = cLog[ch] /\ published' = published)]_vars

\* a play, pause or stop command handler comes to its end in this step
CommandSettles ==
  \/ PlayCmdDone
  \/ PauseCmdDone
  \/ StopCmdDone
  \/ PlayCmd /\ pc' = pc
  \/ (PauseCmd \/ StopCmd \/ StopCmdReset) /\ failures' # failures

\* C16: when a play, pause or stop command handler has settled, the status
\* (playing or not) of the now-playing screen last registered, if it shows a
\* track, is the status the engine has at that moment.
C16_PublishedIsEngineStatus ==
  [][CommandSettles =>
       (published'.track # NoTrack =>
          published'.playing = (eng'.state = "playing"))]_vars

\* C17: while the history is empty the root list of the browse tree is
\* exactly the catalog tracks in catalog order (no Recently Played folder).
C17_NoEmptyFolder ==
  recentlyPlayed = <<>> => browseTree[ROOT_ID] = MapLeaves(CatalogSeq)

\* C18: the browse tree has the key ROOT_ID, and every item marked browsable
\* in any list of the tree has its id as a key of the tree.
C18_TreeWellFormed ==
  /\ ROOT_ID \in DOMAIN browseTree
  /\ \A k \in DOMAIN browseTree :
       \A i \in 1..Len(browseTree[k]) :
         browseTree[k][i].browsable =>
           browseTree[k][i].id \in DOMAIN browseTree

\* C18 witness: a tree whose browsable folder has a node with entries
C18_Witness ==
  /\ variant = "MediaOnly"
  /\ \E i \in 1..Len(browseTree[ROOT_ID]) : browseTree[ROOT_ID][i].browsable
  /\ browseTree[RECENTLY_PLAYED_ID] # <<>>

\* C19: while the history is not empty the root list is the Recently Played
\* folder (browsable, not playable) followed by every catalog track in
\* catalog order as a playable, non-browsable leaf, and the folder's node
\* lists the history entries, most recent first, as playable leaves.
C19_TreeShowsHistory ==
  recentlyPlayed # <<>> =>
    LET root == browseTree[ROOT_ID]
        node == browseTree[RECENTLY_PLAYED_ID]
    IN /\ Len(root) = CatalogSize + 1
       /\ root[1].id = RECENTLY_PLAYED_ID
       /\ root[1].browsable /\ ~root[1].playable
       /\ \A t \in Catalog :
            /\ root[t + 1].id = ItemId(t)
            /\ root[t + 1].playable /\ ~root[t + 1].browsable
       /\ Len(node) = Len(recentlyPlayed)
       /\ \A i \in 1..Len(node) :
            /\ node[i].id = ItemId(recentlyPlayed[i])
            /\ node[i].playable /\ ~node[i].browsable

\* C19 witness: two tracks were played one after the other and the folder's
\* node shows the later one first
C19_Witness ==
  /\ Len(recentlyPlayed) >= 2
  /\ pc["playTrack"] = "idle"
  /\ currentTrackRef = recentlyPlayed[1]
  /\ Len(browseTree[RECENTLY_PLAYED_ID]) >= 2
  /\ browseTree[RECENTLY_PLAYED_ID][1].id = ItemId(recentlyPlayed[1])
  /\ browseTree[RECENTLY_PLAYED_ID][2].id = ItemId(recentlyPlayed[2])

\* C20: a setupPlayer call returns false only when the player cannot report
\* a playback state at that moment (it is not initialised), and a call that
\* began on an initialised player returns true, however many calls were
\* made before it.
C20_SetupIdempotent ==
  [][\A c \in SetupCallers :
       (sp[c].at # "idle" /\ sp'[c].at = "idle") =>
         /\ sp'[c].result \in {"true", "false"}
         /\ sp'[c].result = "false" => ~playerUp
         /\ sp[c].wasUp => sp'[c].result = "true"]_vars

\* C20 witness: after several calls, a call made on an initialised player
\* has returned true
C20_Witness ==
  \E c \in SetupCallers :
    /\ nSetup >= 3
    /\ sp[c].at = "idle"
    /\ sp[c].wasUp
    /\ sp[c].result = "true"

\* C21: after the component has been torn down, none of the listeners it
\* registered on the head unit or on the engine is still registered.
C21_NoListenerAfterTeardown ==
  (effects # <<>> /\ ~Mounted) =>
    \A n \in EngineListeners \cup HeadUnitListeners : registered[n] = 0

\* C21, the head-unit part alone: every head-unit listener is removed
C21_HeadUnitListenersRemoved ==
  (effects # <<>> /\ ~Mounted) =>
    \A n \in HeadUnitListeners : registered[n] = 0

\* a call of a routing restart has thrown and the handler is about to run
\* its catch block
RestartThrew(ch) == pc[ch] = "catch" /\ cWas[ch]

C24_WriteFailureKeepsMemory ==
  [][((PlayTrackFinish \/ CaPlayTrackFinish) /\ failures' = failures + 1) =>
       /\ recentlyPlayed' # <<>>
       /\ recentlyPlayed'[1] = ptTrack
       /\ recentlyPlayed' = addToRecentlyPlayed(recentlyPlayed, ptTrack)
       /\ stored' = stored
       /\ pc'["playTrack"] = "idle"
       /\ currentTrackRef' = ptTrack]_vars

\* C24 witness: after a failed write the list in memory is ahead of storage
\* and its first entry is the track just played
C24_Witness ==
  /\ initPc = "ready"
  /\ failures > 0
  /\ recentlyPlayed # <<>>
  /\ recentlyPlayed # stored
  /\ currentTrackRef = recentlyPlayed[1]
  /\ pc["playTrack"] = "idle"

\* C25: the session-ended handler clears the connection flag and the pending
\* restart marker and nothing else: the cached track, the cached playing
\* flag, the position, the history in memory and in storage and the last
\* published screen are the same after it as before.
C25_DisconnectFrame ==
  [][SessionEnded =>
       /\ ~isConnected'
       /\ pendingAudioRestart' = NoTrack
       /\ UNCHANGED <<currentTrackRef, isPlayingRef, recentlyPlayed, stored,
                      published, cPos>>
       /\ eng'.pos = eng.pos]_vars

\* C25 witness: the session has ended after a connect, and the caches still
\* hold a track that is playing and a history
C25_Witness ==
  /\ ~isConnected
  /\ \E ch \in Channels : cLog[ch] # <<>>
  /\ currentTrackRef # NoTrack
  /\ isPlayingRef
  /\ recentlyPlayed # <<>>
  /\ published.track = currentTrackRef

\* channel ch issues TrackPlayer.play() in this step
IssuesPlay(ch) ==
  /\ Len(cLog'[ch]) = Len(cLog[ch]) + 1
  /\ cLog'[ch][Len(cLog'[ch])].op = "play"

\* C26: when both channels fire connect events, at most one routing restart
\* is in flight at any time, and no handler issues play while the grace
\* interval after another handler's pause is still running.
C26_OneRestartInFlight ==
  [][/\ ~(RestartInFlight("session")' /\ RestartInFlight("browser")')
     /\ \A ch \in Channels, other \in Channels :
          (ch # other /\ IssuesPlay(ch)) => pc[other] \notin {"pause", "wait"}]_vars

\* C26, its first part alone: the two restarts never overlap
C26_RestartsDisjoint ==
  ~(RestartInFlight("session") /\ RestartInFlight("browser"))

\* C26, its second part alone: play is not issued inside the other
\* handler's grace interval
C26_PlayAfterGrace ==
  [][\A ch \in Channels, other \in Channels :
       (ch # other /\ IssuesPlay(ch)) => pc[other] \notin {"pause", "wait"}]_vars

\* C27: when playTrack has added and started an item and makes it the cached
\* current track, the engine's active track is that item.
C27_ActiveIsRequested ==
  [][MoPlayTrackFinish =>
       (currentTrackRef' = ptTrack /\ ActiveTrack(eng') = ptTrack)]_vars

\* C27 for App.js, whose playTrack resets the queue first
C27_AppActiveIsRequested ==
  [][PlayTrackFinish =>
       (currentTrackRef' = ptTrack /\ ActiveTrack(eng') = ptTrack)]_vars

\* C28: whatever is played or connected while init() is still loading, the
\* entries persisted by earlier runs stay in storage, and once the load has
\* completed they are in the list in memory.
C28_PersistedHistoryKept ==
  /\ Elems(StartupStored) \subseteq Elems(stored)
  /\ initPc = "ready" => Elems(StartupStored) \subseteq Elems(recentlyPlayed)

\* C29: after an active-track-changed event that carries no track has been
\* handled, the cached current track is none.
C29_NoTrackClearsCache ==
  [][(ActiveTrackChangedEvent /\ evTrack = NoTrack) =>
       currentTrackRef' = NoTrack]_vars

\* what a play command must do in an engine state e with history recent:
\* resume, start the most recent entry, or nothing
PlayCommandCase(e, recent) ==
  IF ActiveTrack(e) # NoTrack
  THEN IF e.state # "playing" THEN "resume" ELSE "none"
  ELSE IF recent # <<>> THEN "start" ELSE "none"

\* this step issues one engine call and no more (the call may throw)
OneCall(op) ==
  \/ failures' = failures /\ eng' = EngineCall(eng, op, 0)
  \/ failures' = failures + 1 /\ eng' = eng

\* C30: a play command issues play once when the engine holds an active
\* track that is not playing, starts playTrack for the most recent history
\* entry when the engine holds no track and the history is not empty, and
\* issues no engine call when the engine holds no track and the history is
\* empty.
C30_PlayCommand ==
  [][PlayCmd =>
       CASE PlayCommandCase(eng, recentlyPlayed) = "resume" ->
              /\ OneCall("play")
              /\ pc'["playTrack"] = pc["playTrack"]
         [] PlayCommandCase(eng, recentlyPlayed) = "start" ->
              /\ OneCall("reset")
              /\ failures' = failures => ptTrack' = recentlyPlayed[1]
         [] OTHER ->
              ActiveTrack(eng) = NoTrack =>
                (eng' = eng /\ failures' = failures /\ pc' = pc)]_vars

\* C30 for the media-only app, whose listener reads the engine: the same
\* three cases at the step that has the two answers, playTrack not running
C30_MediaOnlyPlayCommand ==
  [][(MoPlayCmdBranch /\ pc["playTrack"] = "idle") =>
       CASE PlayCommandCase(eng, recentlyPlayed) = "resume" ->
              /\ OneCall("play")
              /\ pc'["playTrack"] = "idle"
         [] PlayCommandCase(eng, recentlyPlayed) = "start" ->
              /\ failures' = failures =>
                   (eng' = EngineAdd(eng, recentlyPlayed[1])
                    /\ ptTrack' = recentlyPlayed[1])
              /\ failures' # failures => eng' = eng
         [] OTHER ->
              (eng' = eng /\ failures' = failures /\ pc'["playTrack"] = "idle")]_vars

\* C32: when a restart or resume on connect is aborted by a throw, the
\* now-playing screen left by the catch block shows the engine's active track
\* with the engine's status; it is not the nothing-playing screen while the
\* engine holds an active track and the cached current track is set.
C32_AbortShowsEngineState ==
  [][\A ch \in Channels :
       (/\ ConnectCatch(ch)
        /\ ActiveTrack(eng) # NoTrack
        /\ currentTrackRef # NoTrack) =>
         published' = Screen(ActiveTrack(eng), eng.state = "playing")]_vars

\* C32, its last part alone: the catch block does not register the
\* nothing-playing screen over an active, cached track
C32_AbortNotBlank ==
  [][\A ch \in Channels :
       (/\ ConnectCatch(ch)
        /\ ActiveTrack(eng) # NoTrack
        /\ currentTrackRef # NoTrack) =>
         published'.track # NoTrack]_vars

\* C33: when the engine call a play or pause command issues throws, the
\* handler does not end there: it stays in flight to set the player up again
\* and retry the call.
C33_ThrowIsRetried ==
  [][((PlayCommandCall \/ PauseCmd) /\ failures' = failures + 1) =>
       \E h \in Handlers : pc'[h] # "idle" /\ pc[h] = "idle"]_vars

\* ---------------------------------------------------------------- C34
\* reset, add or play of the traced playTrack call throws in this step
PlayTrackThrows ==
  /\ failures' = failures + 1
  /\ ptStart'.threw \in {"reset", "add", "play"}

NonCatalogActive(ch) ==
  /\ cActive[ch] # NoTrack
  /\ FindMediaItem(cActive[ch]) = NoTrack

\* C35: a connect handler that read an active track whose id is not in the
\* catalog takes its else branch: the step issues no engine call and starts
\* no playTrack, the only call of the run is the registration of the
\* nothing-playing screen, and the handler goes on to its end.
C35_NonCatalogBlank ==
  [][\A ch \in Channels :
       (/\ pc[ch] = "getState"
        /\ pc'[ch] # "getState"
        /\ NonCatalogActive(ch)) =>
         /\ published' = Screen(NoTrack, FALSE)
         /\ UNCHANGED <<eng, failures, ptTrack, currentTrackRef>>
         /\ pc'["playTrack"] = pc["playTrack"]
         /\ cLog'[ch] = <<Call("publishNone", 0)>>
         /\ pc'[ch] = AfterBranch(ch)]_vars

\* a handler has taken its branch for a non-catalog active track that was
\* playing while the history was not empty
C35_Witness ==
  \E ch \in Channels :
    /\ NonCatalogActive(ch)
    /\ cWas[ch]
    /\ recentlyPlayed # <<>>
    /\ pc[ch] = AfterBranch(ch)
    /\ cLog[ch] = <<Call("publishNone", 0)>>
    /\ published = Screen(NoTrack, FALSE)
\* ---------------------------------------------------------------- C31
\* the last call the browser-connected handler has logged
LastCall(op) ==
  /\ cLog["browser"] # <<>>
  /\ cLog["browser"][Len(cLog["browser"])].op = op

\* the handling of the connect event has started or resumed playback: play()
\* of the restart or of the resume has returned, or play() of the playTrack
\* call the handler made has
ConnectStartedPlayback ==
  \/ pc["browser"] = "sync2" /\ LastCall("play")
  \/ pc["playTrack"] = "play" /\ LastCall("playTrack")

\* the head unit holds a sync with status playing and the title of the
\* engine's active track
SyncedPlaying ==
  /\ mediaSession.state = "playing"
  /\ mediaSession.title = ActiveTrack(eng)

\* C31: once the handling of a connect event has started or resumed
\* playback, the head unit eventually holds a playing sync for the engine's
\* active track and the browse tree has been published again since the
\* connect event.
C31_ConnectSyncsAndRepublishes ==
  ConnectStartedPlayback ~> (SyncedPlaying /\ connectRun.tree)

\* the second half of C31 on its own
C31_ConnectRepublishes == ConnectStartedPlayback ~> connectRun.tree

\* the handler ends a restart or a resume only after the browse tree has
\* been published again
C31_TreeBeforeHandlerEnds ==
  [][(pc["browser"] = "sync2" /\ pc'["browser"] = "idle" /\ LastCall("play"))
       => connectRun.tree]_vars
====
